---- MODULE Spec2Model ----
(***************************************************************************)
(* A model of the procedural world generator of rust_civ                   *)
(* (src/src/game/world_gen.rs, src/src/game/hex.rs).                       *)
(*                                                                         *)
(* generate() is a run-to-completion pipeline; the model has one action    *)
(* per stage and `pc` names the stage that runs next.  Every f32 quantity  *)
(* is held in thousandths (1.0 is 1000): elevation, sea level, the climate *)
(* fields, drainage, fertility, river flow and flow accumulation.  Noise   *)
(* generators (Perlin / RidgedMulti seeded from the thread RNG) are fields *)
(* drawn from a bounded family indexed by the seed.                        *)
(***************************************************************************)
EXTENDS Integers, Sequences, FiniteSets, TLC

VARIABLES
    map_radius,        \* WorldGenerator.map_radius
    config,            \* WorldGenerator.config
    tiles,             \* WorldGenerator.tiles: HexCoord -> WorldTile
    sea_level,         \* WorldGenerator.sea_level
    flow_directions,   \* WorldGenerator.flow_directions: HexCoord -> (direction, target)
    flow_accumulation, \* WorldGenerator.flow_accumulation: HexCoord -> f32
    pc,                \* the stage of generate() that runs next
    returned,          \* the Vec<WorldTile> generate() returned, as a sequence of tiles
    probe,             \* input of a stand-alone call of a pure function
    probe_out          \* its result

vars == <<map_radius, config, tiles, sea_level, flow_directions,
          flow_accumulation, pc, returned, probe, probe_out>>

(***************************************************************************)
(* Bounds of the model.                                                    *)
(***************************************************************************)
MaxRadius == 2
MaxSeed == 1
LatticeRadius == 3
WideRadius == 6

Seeds == 0..MaxSeed

(***************************************************************************)
(* Arithmetic helpers.                                                     *)
(***************************************************************************)
Abs(x) == IF x < 0 THEN -x ELSE x
Max(a, b) == IF a >= b THEN a ELSE b
Min(a, b) == IF a <= b THEN a ELSE b
\* Rust's `as i32` on a quotient: rounds toward zero.
TruncDiv(a, b) == IF a >= 0 THEN a \div b ELSE -((-a) \div b)
\* f32::clamp / i32::clamp for lo <= hi.
ClampVal(x, lo, hi) == IF x < lo THEN lo ELSE IF x > hi THEN hi ELSE x

RECURSIVE SumOver(_, _)
SumOver(f, S) ==
    IF S = {} THEN 0
    ELSE LET x == CHOOSE y \in S : TRUE IN f[x] + SumOver(f, S \ {x})

(***************************************************************************)
(* hex.rs: axial coordinates are pairs <<q, r>>.                           *)
(***************************************************************************)
\* The six direction offsets; direction d of the code is Directions[d + 1].
Directions == << <<1, 0>>, <<1, -1>>, <<0, -1>>, <<-1, 0>>, <<-1, 1>>, <<0, 1>> >>

DirIndex == 0..5

\* HexCoord::neighbors()[d]
Neighbor(c, d) == <<c[1] + Directions[d + 1][1], c[2] + Directions[d + 1][2]>>

\* WorldGenerator::step_in_direction
step_in_direction(c, d) ==
    <<c[1] + Directions[(d % 6) + 1][1], c[2] + Directions[(d % 6) + 1][2]>>

\* WorldGenerator::hex_distance
hex_distance(a, b) ==
    LET dq == Abs(a[1] - b[1])
        dr == Abs(a[2] - b[2])
        ds == Abs(-(a[1] + a[2]) + (b[1] + b[2]))
    IN Max(Max(dq, dr), ds)

(***************************************************************************)
(* Enumerations, with the codes of the source.                             *)
(***************************************************************************)
Ocean == 0
Lake == 1
River == 2
TundraBarren == 10
TundraWet == 11
TaigaBorealForest == 12
TemperateGrassland == 20
TemperateDeciduousForest == 21
TemperateConiferForest == 22
TemperateRainforest == 23
TropicalGrasslandSavanna == 30
TropicalSeasonalForest == 31
TropicalRainforest == 32
ColdDesert == 40
HotDesert == 41
Shrubland == 42
AlpineTundra == 50
MontaneForest == 51
Mangrove == 60
SaltMarsh == 61
Wetland == 62

BiomeCodes ==
    {Ocean, Lake, River, TundraBarren, TundraWet, TaigaBorealForest,
     TemperateGrassland, TemperateDeciduousForest, TemperateConiferForest,
     TemperateRainforest, TropicalGrasslandSavanna, TropicalSeasonalForest,
     TropicalRainforest, ColdDesert, HotDesert, Shrubland, AlpineTundra,
     MontaneForest, Mangrove, SaltMarsh, Wetland}

OceanicCrust == 0
ContinentalShelf == 1
Sedimentary == 2
Igneous == 3
Metamorphic == 4
Volcanic == 5
Limestone == 6
Sandstone == 7
Granite == 8
Basalt == 9

(***************************************************************************)
(* WorldGenConfig: Default and the named presets, plus configurations a    *)
(* caller can build by hand (every field is pub).                          *)
(***************************************************************************)
DefaultConfig ==
    [name |-> "default",
     continent_count |-> 4, continent_size |-> 1000,
     continent_separation |-> 1000, continent_clustering |-> 500,
     target_land_percentage |-> 350, sea_level_variance |-> 100,
     tectonic_activity |-> 1000, volcanic_activity |-> 1000,
     global_temperature |-> 1000, rainfall_multiplier |-> 900,
     climate_extremeness |-> 1000, archipelago_zones |-> 1]

pangaea ==
    [DefaultConfig EXCEPT !.name = "pangaea", !.continent_count = 1,
        !.continent_size = 2500, !.continent_separation = 1000,
        !.continent_clustering = 0, !.target_land_percentage = 450]

archipelago_world ==
    [DefaultConfig EXCEPT !.name = "archipelago_world", !.continent_count = 2,
        !.continent_size = 600, !.continent_separation = 2000,
        !.continent_clustering = 200, !.target_land_percentage = 250,
        !.archipelago_zones = 4, !.volcanic_activity = 1800]

fragmented_continents ==
    [DefaultConfig EXCEPT !.name = "fragmented_continents", !.continent_count = 7,
        !.continent_size = 700, !.continent_separation = 1500,
        !.continent_clustering = 800, !.target_land_percentage = 320]

dual_supercontinents ==
    [DefaultConfig EXCEPT !.name = "dual_supercontinents", !.continent_count = 2,
        !.continent_size = 1800, !.continent_separation = 2500,
        !.continent_clustering = 100, !.target_land_percentage = 400]

mediterranean_world ==
    [DefaultConfig EXCEPT !.name = "mediterranean_world", !.continent_count = 4,
        !.continent_size = 1200, !.continent_separation = 800,
        !.continent_clustering = 900, !.target_land_percentage = 420,
        !.tectonic_activity = 1300]

\* The ranges the comments on the fields of WorldGenConfig document.
InDocumentedRanges(cfg) ==
    /\ cfg.continent_count \in 1..8
    /\ cfg.continent_size \in 500..2000
    /\ cfg.continent_separation \in 500..2000
    /\ cfg.continent_clustering \in 0..1000
    /\ cfg.target_land_percentage \in 200..800
    /\ cfg.sea_level_variance \in 0..300
    /\ cfg.tectonic_activity \in 500..2000
    /\ cfg.volcanic_activity \in 0..2000
    /\ cfg.global_temperature \in 300..1000
    /\ cfg.rainfall_multiplier \in 500..1500
    /\ cfg.climate_extremeness \in 500..2000
    /\ cfg.archipelago_zones \in 0..4

\* Hand-built configurations: all land, no jitter; a cool, wet world; a land
\* fraction outside [0, 1]; a wet world with every field in its documented
\* range.
CustomConfigs ==
    {[pangaea EXCEPT !.name = "all_land", !.target_land_percentage = 1000,
        !.sea_level_variance = 0],
     [pangaea EXCEPT !.name = "wet", !.continent_size = 2000,
        !.target_land_percentage = 800, !.sea_level_variance = 0,
        !.rainfall_multiplier = 1500],
     [pangaea EXCEPT !.name = "cool_wet", !.target_land_percentage = 800,
        !.sea_level_variance = 0, !.global_temperature = 500,
        !.rainfall_multiplier = 1500],
     [pangaea EXCEPT !.name = "over_land", !.target_land_percentage = 1500]}

Presets ==
    {DefaultConfig, pangaea, archipelago_world, fragmented_continents,
     dual_supercontinents, mediterranean_world}

Configs == Presets \cup CustomConfigs

(***************************************************************************)
(* Noise: Perlin::new(seed).get([x, y]) and RidgedMulti::new(seed).get,    *)
(* in thousandths, a multiple of 250 in [-1000, 1000].  `salt` separates   *)
(* the generators that one stage seeds independently.                      *)
(***************************************************************************)
NoiseAt(seed, salt, c) ==
    LET x == c[1] + 8
        y == c[2] + 8
        h == x * (2 * seed + 3 + salt) + y * (5 * seed + 7 + 2 * salt)
             + (seed + salt) * x * y + 4 * seed
    IN ((h % 9) - 4) * 250

(***************************************************************************)
(* World tiles.                                                            *)
(***************************************************************************)
NoEdges == [d \in DirIndex |-> FALSE]

\* The WorldTile literal of generate_tectonic_structure.
NewTile(c, value, geo) ==
    [hex_coord |-> c, elevation |-> value, biome |-> 0, has_river |-> FALSE,
     river_flow |-> 0, river_edges |-> NoEdges, is_coastal |-> FALSE,
     resource |-> 0, temperature |-> 0, precipitation |-> 0, drainage |-> 500,
     geology |-> geo, soil_fertility |-> 0]

NoTiles == [c \in {} |-> 0]

(***************************************************************************)
(* generate_continent_centers                                              *)
(***************************************************************************)
\* cos and sin of 2*pi*i/n in thousandths, for the seed counts the
\* configurations use.
CircleCos(i, n) ==
    CASE n = 3 -> <<1000, -500, -500>>[i + 1]
      [] n = 4 -> <<1000, 0, -1000, 0>>[i + 1]
      [] n = 7 -> <<1000, 623, -223, -901, -901, -223, 623>>[i + 1]

CircleSin(i, n) ==
    CASE n = 3 -> <<0, 866, -866>>[i + 1]
      [] n = 4 -> <<0, 1000, 0, -1000>>[i + 1]
      [] n = 7 -> <<0, 782, 975, 434, -434, -975, -782>>[i + 1]

\* rng.random_range(-10..=10), three of its draws.
JitterSet == {-10, 0, 10}

\* rng.random::<f32>() * 2 * PI for an archipelago zone: the four axis angles.
AngleIdx == 0..3

\* The seeds that draw a jitter pair: those of the `count =>` arm.
JitterDraws(cfg) ==
    IF cfg.continent_count \in {1, 2} THEN {} ELSE 0..(cfg.continent_count - 1)

\* i32::clamp(min, max) panics when min > max.
ClampPanics(lo, hi) == lo > hi

\* clustering / dispersion of one coordinate of a seed
ClusterScale(v, cluster_factor) ==
    IF cluster_factor > 500
    THEN TruncDiv(v * (1000 - (cluster_factor - 500)), 1000)
    ELSE TruncDiv(v * (1000 + (500 - cluster_factor) * 2), 1000)

\* One seed of the `count =>` arm, before the clamp.
CircleSeed(R, cfg, i, jit) ==
    LET count == cfg.continent_count
        base_radius == Max((R * 4 * cfg.continent_separation) \div 10, 20000)
        q0 == TruncDiv(base_radius * CircleCos(i, count), 1000000)
        r0 == TruncDiv(base_radius * CircleSin(i, count), 1000000)
    IN <<ClusterScale(q0, cfg.continent_clustering) + jit[1],
         ClusterScale(r0, cfg.continent_clustering) + jit[2]>>

\* TRUE when generate_continent_centers panics: the `count =>` arm runs its
\* loop body at least once and the clamp bounds are inverted.
CentersPanic(R, cfg) ==
    /\ cfg.continent_count \notin {1, 2}
    /\ cfg.continent_count > 0
    /\ ClampPanics(-R + 20, R - 20)

MainCenters(R, cfg, jit) ==
    CASE cfg.continent_count = 1 -> << <<0, 0>> >>
      [] cfg.continent_count = 2 ->
            LET base_spacing == TruncDiv(R * 6 * cfg.continent_separation, 10000)
                separation == Max(base_spacing, 20)
            IN << <<-(separation \div 2), 0>>, <<separation \div 2, 0>> >>
      [] OTHER ->
            [k \in 1..cfg.continent_count |->
                LET s == CircleSeed(R, cfg, k - 1, jit[k - 1])
                IN <<ClampVal(s[1], -R + 20, R - 20),
                     ClampVal(s[2], -R + 20, R - 20)>>]

\* The sub-centres of one archipelago zone that pass the bounds test.
ZoneCenters(R, angle) ==
    LET q == TruncDiv(R * 700 * <<1000, 0, -1000, 0>>[angle + 1], 1000000)
        r == TruncDiv(R * 700 * <<0, 1000, 0, -1000>>[angle + 1], 1000000)
        subs == << <<q + 15, r>>, <<q - 7, r + 12>>, <<q - 7, r - 12>> >>
    IN SelectSeq(subs, LAMBDA s : Abs(s[1]) < R - 10 /\ Abs(s[2]) < R - 10)

RECURSIVE ArchipelagoCenters(_, _, _)
ArchipelagoCenters(R, angles, k) ==
    IF k > Len(angles) THEN <<>>
    ELSE ZoneCenters(R, angles[k]) \o ArchipelagoCenters(R, angles, k + 1)

generate_continent_centers(R, cfg, jit, angles) ==
    MainCenters(R, cfg, jit) \o ArchipelagoCenters(R, angles, 1)

(***************************************************************************)
(* generate_tectonic_structure                                             *)
(***************************************************************************)
\* The coordinates the double loop visits: q in -R..=R, r in r1..=r2.
\* Mutant: the inner loop starts at -R for every q (a rhombus, not a hexagon).
LoopLowR_Square(R, q) == -R

LoopLowR(R, q) == Max(-R, -q - R)

LoopHighR(R, q) == Min(R, -q + R)

LoopCoords(R) ==
    UNION {{<<q, r>> : r \in LoopLowR(R, q)..LoopHighR(R, q)} : q \in (-R)..R}

\* 1000 * exp(-x / 1000) for x >= 0, by the Pade form 1 / (1 + x + x^2 / 2).
ExpNeg(x) == 1000000000 \div (1000000 + 1000 * x + (x * x) \div 2)

\* continent_influence in thousandths; no centre at all gives exp(-inf) = 0.
continent_influence(c, centers, cfg) ==
    IF Len(centers) = 0 THEN 0
    ELSE LET dists == {hex_distance(c, centers[k]) : k \in 1..Len(centers)}
             d == CHOOSE x \in dists : \A y \in dists : x <= y
         IN ExpNeg((d * 25000) \div cfg.continent_size)

\* continental_base and final_continental_value are held in 1/10000.
continental_base(c, centers, cfg, plate_value) ==
    7 * continent_influence(c, centers, cfg) + 3 * plate_value

volcanic_influence(cfg, plate_value, base) ==
    IF plate_value * 1000 > 800 * (2000 - cfg.volcanic_activity) /\ base < 2000
    THEN 4 * cfg.volcanic_activity
    ELSE 0

GeologyOf(final, plate_value, volcanic) ==
    IF final > 3000
    THEN IF plate_value > 600 THEN Granite
         ELSE IF plate_value > 300 THEN Metamorphic
         ELSE Sedimentary
    ELSE IF final > 1000 THEN ContinentalShelf
    ELSE IF volcanic > 0 THEN Volcanic
    ELSE OceanicCrust

TectonicTile(c, centers, cfg, seed) ==
    LET plate_value == NoiseAt(seed, 0, c)
        base == continental_base(c, centers, cfg, plate_value)
        volcanic == volcanic_influence(cfg, plate_value, base)
        final == base + volcanic
    IN NewTile(c, TruncDiv(final, 10), GeologyOf(final, plate_value, volcanic))

\* self.tiles.insert(hex_coord, tile) for every coordinate of the loop.
InsertTiles(old, R, centers, cfg, seed) ==
    LET new == LoopCoords(R)
    IN [c \in (DOMAIN old) \cup new |->
            IF c \in new THEN TectonicTile(c, centers, cfg, seed) ELSE old[c]]

(***************************************************************************)
(* Passes over the tile map.                                               *)
(***************************************************************************)
Coords == DOMAIN tiles

\* The neighbours of c that are on the map (self.tiles.get(&neighbor) is Some).
OnMapNeighbors(t, c) == {d \in DirIndex : Neighbor(c, d) \in DOMAIN t}

IsLand(t, sea, c) == t[c].elevation > sea

(***************************************************************************)
(* generate_base_elevation                                                 *)
(***************************************************************************)
base_elevation(geology) ==
    CASE geology = OceanicCrust -> -600
      [] geology = ContinentalShelf -> -200
      [] geology = Sedimentary -> 100
      [] geology = Limestone -> 150
      [] geology = Sandstone -> 200
      [] geology \in {Igneous, Granite} -> 400
      [] geology = Metamorphic -> 600
      [] geology = Volcanic -> 700
      [] geology = Basalt -> 300

BaseElevationOf(tile, mountain_seed, hill_seed, detail_seed) ==
    LET c == tile.hex_coord
        mountain == IF tile.geology \in {Metamorphic, Igneous, Granite}
                    THEN (NoiseAt(mountain_seed, 1, c) * 4) \div 10
                    ELSE 0
        hill == (NoiseAt(hill_seed, 2, c) * 2) \div 10
        detail == NoiseAt(detail_seed, 3, c) \div 10
    IN ClampVal(base_elevation(tile.geology) + mountain + hill + detail, -1000, 1000)

(***************************************************************************)
(* apply_geological_processes                                              *)
(***************************************************************************)
NeighborElevationSum(t, c) ==
    SumOver([d \in DirIndex |->
                IF Neighbor(c, d) \in DOMAIN t THEN t[Neighbor(c, d)].elevation ELSE 0],
            OnMapNeighbors(t, c))

\* slope * 0.02 without the max(0.0): a tile below its neighbours gains.
ErosionOf_Signed(t, c) ==
    LET n == Cardinality(OnMapNeighbors(t, c))
    IN IF t[c].elevation > 0 /\ n > 0
       THEN -TruncDiv(t[c].elevation * n - NeighborElevationSum(t, c), 50 * n)
       ELSE 0

\* erosion_map[c], as the (non-positive) change of elevation; 0 when c has
\* no entry.
ErosionOf(t, c) ==
    LET n == Cardinality(OnMapNeighbors(t, c))
    IN IF t[c].elevation > 0 /\ n > 0
       THEN -(Max(t[c].elevation * n - NeighborElevationSum(t, c), 0) \div (50 * n))
       ELSE 0

ErodedElevation(t, c) == Max(t[c].elevation + ErosionOf(t, c), -1000)

\* The loop `for (coord, erosion) in erosion_map`, the entries taken in the
\* given order from position i on.
RECURSIVE ApplyErosion(_, _, _, _)
ApplyErosion(t, erosion_map, order, i) ==
    IF i > Len(order) THEN t
    ELSE LET c == order[i]
             next == [t EXCEPT ![c].elevation = Max(@ + erosion_map[c], -1000)]
         IN IF next = next THEN ApplyErosion(next, erosion_map, order, i + 1) ELSE t

(***************************************************************************)
(* determine_sea_level                                                     *)
(***************************************************************************)
\* elevations[k] of the sorted vector, k in 0..N-1.
SortedElevationAt(t, k) ==
    LET elevs == {t[c].elevation : c \in DOMAIN t}
    IN CHOOSE v \in elevs :
          /\ Cardinality({c \in DOMAIN t : t[c].elevation < v}) <= k
          /\ k < Cardinality({c \in DOMAIN t : t[c].elevation <= v})

\* Mutant: the index is taken at the land fraction, not at the ocean
\* percentile 1 - target_land_percentage.
SeaLevelIndex_LandPercentile(n, target_land) ==
    Min((n * target_land) \div 1000, n - 1)

\* (len as f32 * ocean_percentile) as usize, then .min(len - 1); a negative
\* product saturates to 0.
SeaLevelIndex(n, target_land) ==
    LET raw == IF target_land > 1000 THEN 0 ELSE (n * (1000 - target_land)) \div 1000
    IN Min(raw, n - 1)

base_sea_level(t, cfg) ==
    SortedElevationAt(t, SeaLevelIndex(Cardinality(DOMAIN t), cfg.target_land_percentage))

\* rng.random_range(-variance..variance): both ends of the range and its middle.
SeaLevelAdjustments(variance) ==
    IF variance > 0 THEN {-variance, 0, variance - 1} ELSE {0}

(***************************************************************************)
(* create_drainage_basins                                                  *)
(***************************************************************************)
base_drainage_Lower(geology) ==
    CASE geology = Limestone -> 900
      [] geology = Sandstone -> 700
      [] geology = Sedimentary -> 500
      [] geology \in {Igneous, Granite} -> 200
      [] geology = Metamorphic -> 400
      [] geology = Volcanic -> 800
      [] geology = Basalt -> 600
      [] OTHER -> 500

base_drainage(geology) ==
    CASE geology = Limestone -> 900
      [] geology = Sandstone -> 700
      [] geology = Sedimentary -> 500
      [] geology \in {Igneous, Granite} -> 300
      [] geology = Metamorphic -> 400
      [] geology = Volcanic -> 800
      [] geology = Basalt -> 600
      [] OTHER -> 500

DrainageOf(t, c) ==
    LET on == OnMapNeighbors(t, c)
        n == Cardinality(on)
        total_slope ==
            SumOver([d \in DirIndex |->
                        IF Neighbor(c, d) \in DOMAIN t
                        THEN Abs(t[c].elevation - t[Neighbor(c, d)].elevation)
                        ELSE 0], on)
        avg_slope == IF n > 0 THEN total_slope \div n ELSE 0
        slope_drainage_bonus == Min(avg_slope * 2, 300)
    IN Min(base_drainage(t[c].geology) + slope_drainage_bonus, 1000)

(***************************************************************************)
(* generate_rivers: calculate_flow_directions                              *)
(***************************************************************************)
\* Mutant: a neighbour at the running lowest elevation replaces it (<=).
RECURSIVE ScanNeighbors_OrEqual(_, _, _, _, _)
ScanNeighbors_OrEqual(t, c, d, lowest_elevation, lowest_neighbor) ==
    IF d > 5 THEN lowest_neighbor
    ELSE LET n == Neighbor(c, d)
         IN IF n \in DOMAIN t /\ t[n].elevation <= lowest_elevation
            THEN ScanNeighbors_OrEqual(t, c, d + 1, t[n].elevation, <<d, n>>)
            ELSE ScanNeighbors_OrEqual(t, c, d + 1, lowest_elevation, lowest_neighbor)

\* The loop over neighbors.iter().enumerate(), from direction d on, with the
\* running lowest_elevation and lowest_neighbor (<<>> is None).
RECURSIVE ScanNeighbors(_, _, _, _, _)
ScanNeighbors(t, c, d, lowest_elevation, lowest_neighbor) ==
    IF d > 5 THEN lowest_neighbor
    ELSE LET n == Neighbor(c, d)
         IN IF n \in DOMAIN t /\ t[n].elevation < lowest_elevation
            THEN ScanNeighbors(t, c, d + 1, t[n].elevation, <<d, n>>)
            ELSE ScanNeighbors(t, c, d + 1, lowest_elevation, lowest_neighbor)

\* Mutant: the running lowest elevation starts above every elevation instead
\* of at the tile's own, so the lowest neighbour is taken even when higher.
LowestNeighbor_Unbounded(t, c) == ScanNeighbors(t, c, 0, 1001, <<>>)

LowestNeighbor(t, c) == ScanNeighbors(t, c, 0, t[c].elevation, <<>>)

calculate_flow_directions(t, sea) ==
    LET sources == {c \in DOMAIN t : IsLand(t, sea, c) /\ LowestNeighbor(t, c) # <<>>}
    IN [c \in sources |-> LowestNeighbor(t, c)]

(***************************************************************************)
(* generate_rivers: calculate_flow_accumulation                            *)
(***************************************************************************)
\* Mutant: the sort is ascending (a and b swapped in the comparator).
RECURSIVE SortedByElevation_Ascending(_, _)
SortedByElevation_Ascending(t, S) ==
    IF S = {} THEN <<>>
    ELSE LET low == CHOOSE c \in S : \A x \in S : t[c].elevation <= t[x].elevation
         IN <<low>> \o SortedByElevation_Ascending(t, S \ {low})

\* sorted_coords: the land coordinates by descending elevation.  Equal
\* elevations keep the order of the key iteration, here the order CHOOSE picks.
RECURSIVE SortedByElevation(_, _)
SortedByElevation(t, S) ==
    IF S = {} THEN <<>>
    ELSE LET top == CHOOSE c \in S : \A x \in S : t[c].elevation >= t[x].elevation
         IN <<top>> \o SortedByElevation(t, S \ {top})

\* The entry of the target set to the amount instead of increased by it.
AddFlow_Overwrite(acc, target, amount) ==
    [x \in (DOMAIN acc) \cup {target} |-> IF x = target THEN amount ELSE acc[x]]

\* *flow_accumulation.entry(target).or_insert(0.0) += amount
AddFlow(acc, target, amount) ==
    [x \in (DOMAIN acc) \cup {target} |->
        IF x = target
        THEN (IF target \in DOMAIN acc THEN acc[target] ELSE 0) + amount
        ELSE acc[x]]

\* The amount one processed tile passes on: its flow so far plus the
\* precipitation bonus.
PassedOn(t, acc, c) ==
    (IF c \in DOMAIN acc THEN acc[c] ELSE 0) + t[c].precipitation \div 2

\* The loop over sorted_coords, from position i on.  The test `next = next`
\* is TRUE; it has TLC evaluate the map of one iteration before the next one
\* starts, which keeps the evaluation of long loops shallow.
RECURSIVE FlowPass(_, _, _, _, _)
FlowPass(t, fd, order, i, acc) ==
    IF i > Len(order) THEN acc
    ELSE LET c == order[i]
             next == IF c \in DOMAIN fd
                     THEN AddFlow(acc, fd[c][2], PassedOn(t, acc, c))
                     ELSE acc
         IN IF next = next THEN FlowPass(t, fd, order, i + 1, next) ELSE acc

calculate_flow_accumulation(t, sea, fd) ==
    LET land == {c \in DOMAIN t : IsLand(t, sea, c)}
    IN FlowPass(t, fd, SortedByElevation(t, land), 1, [c \in land |-> 1000])

(***************************************************************************)
(* generate_rivers: generate_river_network, calculate_river_flow_rates,    *)
(* set_river_edges                                                         *)
(***************************************************************************)
\* flow >= base_threshold * precip_factor * elevation_factor
MeetsRiverThreshold(tile, sea, flow) ==
    LET precip_factor == Max(1000 - tile.precipitation \div 2, 300)
        elevation_factor == IF tile.elevation > sea + 300 THEN 800 ELSE 1000
    IN flow * 1000 >= 4 * precip_factor * elevation_factor

generate_river_network(t, sea, acc) ==
    [c \in DOMAIN t |->
        IF c \in DOMAIN acc /\ MeetsRiverThreshold(t[c], sea, acc[c])
        THEN [t[c] EXCEPT !.has_river = TRUE]
        ELSE t[c]]

MaxFlow(acc) ==
    IF DOMAIN acc = {} THEN 0
    ELSE LET vals == {acc[c] : c \in DOMAIN acc}
         IN Max(0, CHOOSE v \in vals : \A w \in vals : v >= w)

\* (flow / max_flow).max(0.1).min(1.0)
NormalizedFlow(flow, max_flow) == Min(Max((flow * 1000) \div max_flow, 100), 1000)

\* Mutant: an edge is drawn along every flow direction, river or not.
RiverEdgeAfter_AnyFlow(t, fd, c, d) ==
    \/ t[c].river_edges[d]
    \/ (c \in DOMAIN fd /\ fd[c][1] = d)
    \/ \E s \in DOMAIN fd : fd[s][2] = c /\ (fd[s][1] + 3) % 6 = d

\* Only the source side of a flow edge is flagged.
RiverEdgeAfter_SourceOnly(t, fd, c, d) ==
    \/ t[c].river_edges[d]
    \/ /\ c \in DOMAIN fd
       /\ fd[c][1] = d
       /\ (t[c].has_river \/ t[fd[c][2]].has_river)

\* river_edges[d] of tile c after set_river_edges.
RiverEdgeAfter(t, fd, c, d) ==
    \/ t[c].river_edges[d]
    \/ /\ c \in DOMAIN fd
       /\ fd[c][1] = d
       /\ (t[c].has_river \/ t[fd[c][2]].has_river)
    \/ \E s \in DOMAIN fd :
          /\ fd[s][2] = c
          /\ (fd[s][1] + 3) % 6 = d
          /\ (t[s].has_river \/ t[c].has_river)

set_river_edges(t, fd) ==
    [c \in DOMAIN t |->
        [t[c] EXCEPT !.river_edges = [d \in DirIndex |-> RiverEdgeAfter(t, fd, c, d)]]]

calculate_river_flow_rates(t, fd, acc) ==
    LET rated == [c \in DOMAIN t |->
                    IF c \in DOMAIN acc /\ t[c].has_river
                    THEN [t[c] EXCEPT !.river_flow = NormalizedFlow(acc[c], MaxFlow(acc))]
                    ELSE t[c]]
    IN set_river_edges(rated, fd)

(***************************************************************************)
(* mark_coastal_features                                                   *)
(***************************************************************************)
mark_coastal_features(t, sea) ==
    [c \in DOMAIN t |->
        IF IsLand(t, sea, c)
        THEN [t[c] EXCEPT !.is_coastal =
                \E d \in OnMapNeighbors(t, c) : t[Neighbor(c, d)].elevation <= sea]
        ELSE t[c]]

(***************************************************************************)
(* Climate: simulate_temperature, simulate_precipitation,                  *)
(* apply_orographic_effects                                                *)
(***************************************************************************)
\* distance_to_ocean in hexes; -1 stands for f32::INFINITY (no ocean tile).
distance_to_ocean(t, sea, c) ==
    LET dists == {hex_distance(c, o) : o \in {x \in DOMAIN t : t[x].elevation <= sea}}
    IN IF dists = {} THEN -1 ELSE CHOOSE d \in dists : \A e \in dists : d <= e

\* (ocean_distance / 20.0).min(cap), cap in thousandths
OceanDistanceRatio(dist, cap) == IF dist < 0 THEN cap ELSE Min(dist * 50, cap)

TemperatureOf(t, sea, cfg, seed, c) ==
    LET latitude_factor == Abs(c[2] * 4)
        base_temp == Max((10000 - latitude_factor * 8) \div 10, 200)
        elevation_cooling == IF t[c].elevation > sea
                             THEN ((t[c].elevation - sea) * 3) \div 2
                             ELSE 0
        continental_effect == OceanDistanceRatio(distance_to_ocean(t, sea, c), 300)
        temp_variation == NoiseAt(seed, 4, c) \div 10
        temperature == ClampVal(base_temp - elevation_cooling + temp_variation
                                    + continental_effect \div 10, 0, 1000)
    IN (temperature * cfg.global_temperature) \div 1000

latitude_precip(latitude) ==
    LET banded ==
            IF latitude < 150 THEN 800 - (latitude * 3) \div 10
            ELSE IF latitude < 300 THEN 300 + ((latitude - 150) * 8) \div 10
            ELSE IF latitude < 500 THEN 500 + ((latitude - 300) * 6) \div 10
            ELSE 400 - ((latitude - 500) * 6) \div 10
    IN Min(Max(banded, 100), 900)

PrecipitationOf(t, sea, cfg, seed, c) ==
    LET coastal_bonus ==
            ((1000 - OceanDistanceRatio(distance_to_ocean(t, sea, c), 1000)) * 2) \div 10
        precip_variation ==
            TruncDiv(NoiseAt(seed, 5, c) * 4 * cfg.climate_extremeness, 10000)
        elevation_effect == IF t[c].elevation > sea + 300 THEN 200 ELSE 0
        precipitation == ClampVal(latitude_precip(Abs(c[2] * 4)) + coastal_bonus
                                    + elevation_effect + precip_variation, 0, 1000)
    IN (precipitation * cfg.rainfall_multiplier) \div 1000

\* shadow_strength at step k of a ray: 0.3 * 0.7^(k-1), k in 1..7.
ShadowStrength == <<300, 210, 147, 103, 72, 50, 35>>

RECURSIVE StepN(_, _, _)
StepN(c, d, k) == IF k = 0 THEN c ELSE StepN(step_in_direction(c, d), d, k - 1)

\* The ray from source s in direction d is still running at step k: every
\* tile up to step k is on the map and lower than the source by more than 0.1.
RayReaches(t, s, d, k) ==
    \A j \in 1..k :
        /\ StepN(s, d, j) \in DOMAIN t
        /\ t[StepN(s, d, j)].elevation < t[s].elevation - 100

\* rain_shadow_effects[c]; 0 when c has no entry.
RainShadowOn(t, sea, c) ==
    LET hits == {k \in 1..7 :
                    \E d \in DirIndex :
                        LET s == StepN(c, (d + 3) % 6, k)
                        IN /\ s \in DOMAIN t
                           /\ t[s].elevation > sea + 300
                           /\ RayReaches(t, s, d, k)}
    IN IF hits = {} THEN 0
       ELSE ShadowStrength[CHOOSE k \in hits : \A j \in hits : k <= j]

\* One ray summing the strengths a tile receives instead of keeping the maximum.
RECURSIVE CastRay_Sum(_, _, _, _, _, _, _)
CastRay_Sum(t, s, cur, d, step, n, eff) ==
    IF step > 7 THEN eff
    ELSE LET x == step_in_direction(cur, d)
         IN IF x \notin DOMAIN t THEN eff
            ELSE IF t[x].elevation < t[s].elevation - 100
                 THEN LET next == [eff EXCEPT ![x] = @ + ShadowStrength[n + 1]]
                      IN IF next = next
                         THEN CastRay_Sum(t, s, x, d, step + 1, n + 1, next)
                         ELSE eff
                 ELSE eff

\* The loop `for _distance in 1..8` of one ray, from step `step` on: cur is
\* shadow_coord, n the number of times shadow_strength was multiplied by 0.7,
\* eff is rain_shadow_effects with 0 for a missing entry.  The test
\* `next = next` is TRUE; it has TLC evaluate the map of one step.
RECURSIVE CastRay(_, _, _, _, _, _, _)
CastRay(t, s, cur, d, step, n, eff) ==
    IF step > 7 THEN eff
    ELSE LET x == step_in_direction(cur, d)
         IN IF x \notin DOMAIN t THEN eff
            ELSE IF t[x].elevation < t[s].elevation - 100
                 THEN LET next == [eff EXCEPT ![x] = Max(@, ShadowStrength[n + 1])]
                      IN IF next = next
                         THEN CastRay(t, s, x, d, step + 1, n + 1, next)
                         ELSE eff
                 ELSE eff

\* The loop `for direction in 0..6` of one source, from direction d on.
RECURSIVE CastFrom(_, _, _, _)
CastFrom(t, s, d, eff) ==
    IF d > 5 THEN eff
    ELSE CastFrom(t, s, d + 1, CastRay(t, s, s, d, 1, 0, eff))

\* The loop `for coord in coords`, the tiles visited in the given order.
RECURSIVE CastShadows(_, _, _, _, _)
CastShadows(t, sea, order, i, eff) ==
    IF i > Len(order) THEN eff
    ELSE LET next == IF t[order[i]].elevation > sea + 300
                     THEN CastFrom(t, order[i], 0, eff)
                     ELSE eff
         IN IF next = next THEN CastShadows(t, sea, order, i + 1, next) ELSE eff

apply_orographic_effects(t, sea) ==
    [c \in DOMAIN t |->
        [t[c] EXCEPT !.precipitation =
            Max((t[c].precipitation * (1000 - RainShadowOn(t, sea, c))) \div 1000, 0)]]

(***************************************************************************)
(* Biomes: assign_biomes, determine_terrestrial_biome                      *)
(***************************************************************************)
\* The arms of `match temp`, each a `match precip`.
PolarBand(precip) == IF precip > 400 THEN TundraWet ELSE TundraBarren

BorealBand(precip) ==
    IF precip > 500 THEN TaigaBorealForest
    ELSE IF precip > 200 THEN TaigaBorealForest
    ELSE ColdDesert

CoolBand(precip) ==
    IF precip > 700 THEN TemperateRainforest
    ELSE IF precip > 500 THEN TemperateDeciduousForest
    ELSE IF precip > 300 THEN TemperateConiferForest
    ELSE IF precip > 150 THEN TemperateGrassland
    ELSE ColdDesert

WarmBand(precip) ==
    IF precip > 700 THEN TropicalSeasonalForest
    ELSE IF precip > 500 THEN TemperateDeciduousForest
    ELSE IF precip > 300 THEN TemperateGrassland
    ELSE IF precip > 150 THEN Shrubland
    ELSE HotDesert

\* Mutant: the hot band's last arm leaves the biome at the placeholder code 0
\* instead of HotDesert.
HotBand_NoDefault(precip) ==
    IF precip > 700 THEN TropicalRainforest
    ELSE IF precip > 400 THEN TropicalSeasonalForest
    ELSE IF precip > 200 THEN TropicalGrasslandSavanna
    ELSE IF precip > 100 THEN Shrubland
    ELSE 0

HotBand(precip) ==
    IF precip > 700 THEN TropicalRainforest
    ELSE IF precip > 400 THEN TropicalSeasonalForest
    ELSE IF precip > 200 THEN TropicalGrasslandSavanna
    ELSE IF precip > 100 THEN Shrubland
    ELSE HotDesert

determine_terrestrial_biome(tile, sea) ==
    LET temp == tile.temperature
        precip == tile.precipitation
        elevation_above_sea == tile.elevation - sea
    IN IF elevation_above_sea > 600 THEN AlpineTundra
       ELSE IF elevation_above_sea > 400 /\ temp < 600 THEN MontaneForest
       ELSE IF tile.drainage < 300 /\ precip > 600 /\ tile.is_coastal
            THEN (IF temp > 700 THEN Mangrove ELSE SaltMarsh)
       ELSE IF tile.drainage < 400 /\ precip > 700 THEN Wetland
       ELSE IF temp < 200 THEN PolarBand(precip)
       ELSE IF temp < 400 THEN BorealBand(precip)
       ELSE IF temp < 600 THEN CoolBand(precip)
       ELSE IF temp < 800 THEN WarmBand(precip)
       ELSE HotBand(precip)

\* Mutant: the ocean test is strict (elevation < sea_level).
BiomeOf_StrictOcean(tile, sea) ==
    IF tile.elevation < sea THEN Ocean ELSE determine_terrestrial_biome(tile, sea)

BiomeOf(tile, sea) ==
    IF tile.elevation <= sea THEN Ocean ELSE determine_terrestrial_biome(tile, sea)

assign_biomes(t, sea) ==
    [c \in DOMAIN t |->
        IF t[c].biome # 0 THEN t[c] ELSE [t[c] EXCEPT !.biome = BiomeOf(t[c], sea)]]

(***************************************************************************)
(* refine_river_network                                                    *)
(***************************************************************************)
\* BiomeType::from_u8 maps an unknown code to TemperateGrassland.
BiomeFromU8(code) == IF code \in BiomeCodes THEN code ELSE TemperateGrassland

biome_threshold(biome) ==
    CASE biome = TropicalRainforest -> 2000
      [] biome = TemperateRainforest -> 2500
      [] biome \in {TropicalSeasonalForest, TemperateDeciduousForest} -> 3000
      [] biome \in {TemperateGrassland, TaigaBorealForest} -> 3500
      [] biome = TemperateConiferForest -> 4000
      [] biome \in {TundraWet, Wetland} -> 3000
      [] biome = Shrubland -> 6000
      [] biome \in {HotDesert, ColdDesert} -> 12000
      [] biome = TundraBarren -> 8000
      [] OTHER -> 5000

\* The coordinates refine_river_network promotes.
AdditionalRivers(t, acc) ==
    {c \in DOMAIN acc :
        /\ ~t[c].has_river
        /\ acc[c] >= biome_threshold(BiomeFromU8(t[c].biome))}

\* Mutant: the promoted tiles are not given a flow rate (no recalculation).
refine_river_network_NoRecalc(t, fd, acc) ==
    [c \in DOMAIN t |->
        IF c \in AdditionalRivers(t, acc) THEN [t[c] EXCEPT !.has_river = TRUE] ELSE t[c]]

refine_river_network(t, fd, acc) ==
    LET added == AdditionalRivers(t, acc)
        promoted == [c \in DOMAIN t |->
                        IF c \in added THEN [t[c] EXCEPT !.has_river = TRUE] ELSE t[c]]
    IN IF added # {} THEN calculate_river_flow_rates(promoted, fd, acc) ELSE promoted

(***************************************************************************)
(* place_lakes                                                             *)
(***************************************************************************)
higher_neighbors(t, c) ==
    Cardinality({d \in OnMapNeighbors(t, c) : t[Neighbor(c, d)].elevation > t[c].elevation})

incoming_flows(fd, c) ==
    Cardinality({d \in DirIndex :
                    /\ Neighbor(c, d) \in DOMAIN fd
                    /\ fd[Neighbor(c, d)][2] = c})

\* depression_depth > 0.1 instead of > 0.05
DeepEnough_Deeper(t, c) ==
    LET n == Cardinality(OnMapNeighbors(t, c))
    IN n > 0 /\ NeighborElevationSum(t, c) - t[c].elevation * n > 100 * n

\* depression_depth > 0.05, on the sums (avg = total / count)
DeepEnough(t, c) ==
    LET n == Cardinality(OnMapNeighbors(t, c))
    IN n > 0 /\ NeighborElevationSum(t, c) - t[c].elevation * n > 50 * n

IsLakeCandidate(t, sea, fd, c) ==
    /\ t[c].elevation > sea
    /\ t[c].elevation < sea + 300
    /\ higher_neighbors(t, c) >= 4
    /\ DeepEnough(t, c)
    /\ incoming_flows(fd, c) >= 2

\* depression_depth + incoming_flows * 0.1
LakeScore(t, fd, c) ==
    LET n == Cardinality(OnMapNeighbors(t, c))
    IN (NeighborElevationSum(t, c) - t[c].elevation * n) \div n + incoming_flows(fd, c) * 100

LakeCandidates(t, sea, fd) == {c \in DOMAIN t : IsLakeCandidate(t, sea, fd, c)}

\* Every order the stable descending sort can leave the candidates in: equal
\* scores keep the order of the key iteration, which is arbitrary.
RECURSIVE CandidateOrders(_, _, _)
CandidateOrders(t, fd, S) ==
    IF S = {} THEN {<<>>}
    ELSE LET best == {c \in S : \A x \in S : LakeScore(t, fd, c) >= LakeScore(t, fd, x)}
         IN UNION {{<<c>> \o rest : rest \in CandidateOrders(t, fd, S \ {c})} : c \in best}

LakeCap == 25

LakeSpacing == 6

\* The commit loop without the too_close test.
RECURSIVE CommitLakes_NoSpacing(_, _, _)
CommitLakes_NoSpacing(t, order, i) ==
    IF i > Len(order) \/ i > LakeCap THEN t
    ELSE CommitLakes_NoSpacing([t EXCEPT ![order[i]].biome = Lake], order, i + 1)

\* The commit loop carving a basin: a committed lake is lowered by 0.05.
RECURSIVE CommitLakes_Carve(_, _, _)
CommitLakes_Carve(t, order, i) ==
    IF i > Len(order) \/ i > LakeCap THEN t
    ELSE LET c == order[i]
             too_close == \E x \in DOMAIN t :
                             /\ t[x].biome = Lake
                             /\ hex_distance(c, t[x].hex_coord) < LakeSpacing
         IN IF too_close THEN CommitLakes_Carve(t, order, i + 1)
            ELSE CommitLakes_Carve([t EXCEPT ![c].biome = Lake, ![c].elevation = @ - 50],
                                   order, i + 1)

\* The commit loop over lake_candidates.iter().take(25), from position i on.
RECURSIVE CommitLakes(_, _, _)
CommitLakes(t, order, i) ==
    IF i > Len(order) \/ i > LakeCap THEN t
    ELSE LET c == order[i]
             too_close == \E x \in DOMAIN t :
                             /\ t[x].biome = Lake
                             /\ hex_distance(c, t[x].hex_coord) < LakeSpacing
         IN IF too_close THEN CommitLakes(t, order, i + 1)
            ELSE CommitLakes([t EXCEPT ![c].biome = Lake], order, i + 1)

(***************************************************************************)
(* calculate_soil_fertility                                                *)
(***************************************************************************)
base_fertility(biome) ==
    CASE biome = TropicalRainforest -> 600
      [] biome = TropicalSeasonalForest -> 800
      [] biome = TropicalGrasslandSavanna -> 900
      [] biome = TemperateGrassland -> 1000
      [] biome = TemperateDeciduousForest -> 700
      [] biome = TemperateConiferForest -> 400
      [] biome = TaigaBorealForest -> 300
      [] biome = Wetland -> 800
      [] OTHER -> 200

geology_modifier(geology) ==
    CASE geology = Sedimentary -> 200
      [] geology = Limestone -> 100
      [] geology = Volcanic -> 300
      [] OTHER -> 0

FertilityOf(tile) ==
    Min(base_fertility(BiomeFromU8(tile.biome))
            + (IF tile.has_river THEN 300 ELSE 0)
            + geology_modifier(tile.geology), 1000)

calculate_soil_fertility(t) ==
    [c \in DOMAIN t |-> [t[c] EXCEPT !.soil_fertility = FertilityOf(t[c])]]

(***************************************************************************)
(* place_geological_resources, generate_biome_resource                     *)
(***************************************************************************)
\* ResourceType codes (resources.rs)
Gold == 1
Iron == 2
Wheat == 3
Fish == 4
Stone == 5
Wood == 6
Oil == 7
Horses == 8
Gems == 9
Copper == 10
Coal == 11
Cattle == 12
Spices == 13
Silk == 14
Salt == 16

\* The seed of the resource noise, Perlin::new(789).
ResourceSeed == 789

possible_resources(biome) ==
    CASE biome \in {Ocean, Lake, River} -> <<Fish>>
      [] biome \in {TemperateGrassland, TropicalGrasslandSavanna} -> <<Wheat, Horses, Cattle>>
      [] biome \in {AlpineTundra, MontaneForest} -> <<Iron, Stone, Copper, Coal>>
      [] biome \in {TemperateDeciduousForest, TemperateConiferForest, TaigaBorealForest,
                    TropicalRainforest, TropicalSeasonalForest} -> <<Wood, Spices, Silk>>
      [] biome \in {HotDesert, ColdDesert} -> <<Oil, Gold, Gems>>
      [] biome \in {TundraBarren, TundraWet} -> <<Oil, Iron>>
      [] biome \in {Mangrove, SaltMarsh} -> <<Fish, Salt>>
      [] OTHER -> <<Stone>>

\* Mutant: the index weighs q, not r, by 3.
generate_biome_resource_SwappedIndex(c, biome) ==
    LET resource_chance == NoiseAt(ResourceSeed, 6, c)
        list == possible_resources(BiomeFromU8(biome))
    IN IF resource_chance > 700
       THEN list[((Abs(c[1]) * 3 + Abs(c[2])) % Len(list)) + 1]
       ELSE 0

generate_biome_resource(c, biome) ==
    LET resource_chance == NoiseAt(ResourceSeed, 6, c)
        list == possible_resources(BiomeFromU8(biome))
    IN IF resource_chance > 700
       THEN list[((Abs(c[1]) + Abs(c[2]) * 3) % Len(list)) + 1]
       ELSE 0

place_geological_resources(t) ==
    [c \in DOMAIN t |->
        [t[c] EXCEPT !.resource = generate_biome_resource(t[c].hex_coord, t[c].biome)]]

\* self.tiles.values().cloned().collect(), in one iteration order.
RECURSIVE TileVector(_, _)
TileVector(t, S) ==
    IF S = {} THEN <<>>
    ELSE LET c == CHOOSE x \in S : TRUE IN <<t[c]>> \o TileVector(t, S \ {c})

(***************************************************************************)
(* The state machine: WorldGenerator::with_config, then generate().        *)
(***************************************************************************)
NoFlow == [c \in {} |-> 0]

\* The generator with_config returns, generate() about to be called.  The
\* caller passes any radius and any configuration.
Init ==
    /\ map_radius \in (0 - 1)..MaxRadius
    /\ config \in Configs
    /\ tiles = NoTiles
    /\ sea_level = 0
    /\ flow_directions = NoFlow
    /\ flow_accumulation = NoFlow
    /\ pc = "generate_tectonic_structure"
    /\ returned = <<>>
    /\ probe = <<>>
    /\ probe_out = <<>>

\* A stage that only rewrites the tiles.
TileStage(from, to, new_tiles) ==
    /\ pc = from
    /\ tiles' = new_tiles
    /\ pc' = to
    /\ UNCHANGED <<map_radius, config, sea_level, flow_directions,
                   flow_accumulation, returned, probe, probe_out>>

Panic(from) ==
    /\ pc = from
    /\ pc' = "panicked"
    /\ UNCHANGED <<map_radius, config, tiles, sea_level, flow_directions,
                   flow_accumulation, returned, probe, probe_out>>

GenerateTectonicStructure ==
    /\ pc = "generate_tectonic_structure"
    /\ \E seed \in Seeds :
          IF CentersPanic(map_radius, config)
          THEN Panic("generate_tectonic_structure")
          ELSE \E jit \in [JitterDraws(config) -> JitterSet \X JitterSet],
                  angles \in [1..config.archipelago_zones -> AngleIdx] :
                  TileStage("generate_tectonic_structure", "generate_base_elevation",
                      InsertTiles(tiles, map_radius,
                          generate_continent_centers(map_radius, config, jit, angles),
                          config, seed))

GenerateBaseElevation ==
    \E mountain_seed \in Seeds, hill_seed \in Seeds, detail_seed \in Seeds :
        TileStage("generate_base_elevation", "apply_geological_processes",
            [c \in Coords |->
                [tiles[c] EXCEPT !.elevation =
                    BaseElevationOf(tiles[c], mountain_seed, hill_seed, detail_seed)]])

ApplyGeologicalProcesses ==
    TileStage("apply_geological_processes", "determine_sea_level",
        [c \in Coords |-> [tiles[c] EXCEPT !.elevation = ErodedElevation(tiles, c)]])

\* elevations[base_index] on an empty vector: len() - 1 underflows, or the
\* index is out of bounds; both panic.
DetermineSeaLevel ==
    /\ pc = "determine_sea_level"
    /\ IF Coords = {}
       THEN Panic("determine_sea_level")
       ELSE /\ \E adjustment \in SeaLevelAdjustments(config.sea_level_variance) :
                  sea_level' = base_sea_level(tiles, config) + adjustment
            /\ pc' = "create_drainage_basins"
            /\ UNCHANGED <<map_radius, config, tiles, flow_directions,
                           flow_accumulation, returned, probe, probe_out>>

CreateDrainageBasins ==
    TileStage("create_drainage_basins", "calculate_flow_directions",
        [c \in Coords |-> [tiles[c] EXCEPT !.drainage = DrainageOf(tiles, c)]])

CalculateFlowDirections ==
    /\ pc = "calculate_flow_directions"
    /\ flow_directions' = calculate_flow_directions(tiles, sea_level)
    /\ pc' = "calculate_flow_accumulation"
    /\ UNCHANGED <<map_radius, config, tiles, sea_level, flow_accumulation,
                   returned, probe, probe_out>>

CalculateFlowAccumulation ==
    /\ pc = "calculate_flow_accumulation"
    /\ flow_accumulation' = calculate_flow_accumulation(tiles, sea_level, flow_directions)
    /\ pc' = "generate_river_network"
    /\ UNCHANGED <<map_radius, config, tiles, sea_level, flow_directions,
                   returned, probe, probe_out>>

GenerateRiverNetwork ==
    TileStage("generate_river_network", "calculate_river_flow_rates",
        generate_river_network(tiles, sea_level, flow_accumulation))

CalculateRiverFlowRates ==
    TileStage("calculate_river_flow_rates", "mark_coastal_features",
        calculate_river_flow_rates(tiles, flow_directions, flow_accumulation))

MarkCoastalFeatures ==
    TileStage("mark_coastal_features", "simulate_temperature",
        mark_coastal_features(tiles, sea_level))

SimulateTemperature ==
    \E seed \in Seeds :
        TileStage("simulate_temperature", "simulate_precipitation",
            [c \in Coords |->
                [tiles[c] EXCEPT !.temperature =
                    TemperatureOf(tiles, sea_level, config, seed, c)]])

SimulatePrecipitation ==
    \E seed \in Seeds :
        TileStage("simulate_precipitation", "apply_orographic_effects",
            [c \in Coords |->
                [tiles[c] EXCEPT !.precipitation =
                    PrecipitationOf(tiles, sea_level, config, seed, c)]])

ApplyOrographicEffects ==
    TileStage("apply_orographic_effects", "assign_biomes",
        apply_orographic_effects(tiles, sea_level))

AssignBiomes ==
    TileStage("assign_biomes", "refine_river_network", assign_biomes(tiles, sea_level))

RefineRiverNetwork ==
    TileStage("refine_river_network", "place_lakes",
        refine_river_network(tiles, flow_directions, flow_accumulation))

PlaceLakes ==
    \E order \in CandidateOrders(tiles, flow_directions,
                                 LakeCandidates(tiles, sea_level, flow_directions)) :
        TileStage("place_lakes", "calculate_soil_fertility", CommitLakes(tiles, order, 1))

CalculateSoilFertility ==
    TileStage("calculate_soil_fertility", "place_geological_resources",
        calculate_soil_fertility(tiles))

PlaceGeologicalResources ==
    TileStage("place_geological_resources", "return", place_geological_resources(tiles))

\* Mutant: the two flow maps are emptied when generate() returns.
Return_DiscardsFlowMaps ==
    /\ pc = "return"
    /\ returned' = TileVector(tiles, Coords)
    /\ pc' = "done"
    /\ flow_directions' = NoFlow
    /\ flow_accumulation' = NoFlow
    /\ UNCHANGED <<map_radius, config, tiles, sea_level, probe, probe_out>>

Return ==
    /\ pc = "return"
    /\ returned' = TileVector(tiles, Coords)
    /\ pc' = "done"
    /\ UNCHANGED <<map_radius, config, tiles, sea_level, flow_directions,
                   flow_accumulation, probe, probe_out>>

Next ==
    \/ GenerateTectonicStructure
    \/ GenerateBaseElevation
    \/ ApplyGeologicalProcesses
    \/ DetermineSeaLevel
    \/ CreateDrainageBasins
    \/ CalculateFlowDirections
    \/ CalculateFlowAccumulation
    \/ GenerateRiverNetwork
    \/ CalculateRiverFlowRates
    \/ MarkCoastalFeatures
    \/ SimulateTemperature
    \/ SimulatePrecipitation
    \/ ApplyOrographicEffects
    \/ AssignBiomes
    \/ RefineRiverNetwork
    \/ PlaceLakes
    \/ CalculateSoilFertility
    \/ PlaceGeologicalResources
    \/ Return

Spec == Init /\ [][Next]_vars

(***************************************************************************)
(* A generator that is used again: generate() called on a generator whose  *)
(* earlier run has returned.  The tiles, the sea level and the two flow    *)
(* maps of the earlier run are still in place.                             *)
(***************************************************************************)
Regenerate ==
    /\ pc = "done"
    /\ pc' = "generate_tectonic_structure"
    /\ returned' = <<>>
    /\ UNCHANGED <<map_radius, config, tiles, sea_level, flow_directions,
                   flow_accumulation, probe, probe_out>>

InitRegen == Init /\ config.sea_level_variance = 0

NextRegen == Next \/ Regenerate

SpecRegen == InitRegen /\ [][NextRegen]_vars

(***************************************************************************)
(* determine_terrestrial_biome called on its own, on a tile whose fields   *)
(* are drawn around every threshold of the rule table (sea level 0).       *)
(***************************************************************************)
ProbeTemperatures == {0, 199, 200, 399, 400, 599, 600, 700, 701, 799, 800, 1000}

ProbePrecipitations ==
    {0, 100, 101, 150, 151, 200, 201, 300, 301, 400, 401, 500, 501, 600, 601,
     700, 701, 1000}

ProbeDrainages == {0, 299, 300, 399, 400, 1000}

ProbeElevations == {1, 400, 401, 600, 601, 1000}

ProbeTiles ==
    {[NewTile(<<0, 0>>, e, Sedimentary) EXCEPT
        !.temperature = t, !.precipitation = p, !.drainage = dr, !.is_coastal = co] :
        t \in ProbeTemperatures, p \in ProbePrecipitations, dr \in ProbeDrainages,
        e \in ProbeElevations, co \in BOOLEAN}

InitBiome ==
    /\ map_radius = 0
    /\ config = DefaultConfig
    /\ tiles = NoTiles
    /\ sea_level = 0
    /\ flow_directions = NoFlow
    /\ flow_accumulation = NoFlow
    /\ pc = "probe"
    /\ returned = <<>>
    /\ probe \in {<<t>> : t \in ProbeTiles}
    /\ probe_out = <<>>

ClassifyProbe ==
    /\ pc = "probe"
    /\ probe_out' = <<determine_terrestrial_biome(probe[1], sea_level)>>
    /\ pc' = "probed"
    /\ UNCHANGED <<map_radius, config, tiles, sea_level, flow_directions,
                   flow_accumulation, returned, probe>>

NextBiome == ClassifyProbe

SpecBiome == InitBiome /\ [][NextBiome]_vars

(***************************************************************************)
(* The all-land scenario: radius 5 (91 tiles), one continent, target land  *)
(* fraction 1.0, with and without sea-level jitter.                        *)
(***************************************************************************)
InitScenario ==
    /\ map_radius = 5
    /\ config \in {[pangaea EXCEPT !.name = "scenario", !.target_land_percentage = 1000,
                        !.sea_level_variance = v] : v \in {0, 100}}
    /\ tiles = NoTiles
    /\ sea_level = 0
    /\ flow_directions = NoFlow
    /\ flow_accumulation = NoFlow
    /\ pc = "generate_tectonic_structure"
    /\ returned = <<>>
    /\ probe = <<>>
    /\ probe_out = <<>>

SpecScenario == InitScenario /\ [][Next]_vars

(***************************************************************************)
(* Hand-built maps: the generator right after determine_sea_level, with    *)
(* the elevations set by hand and the sea level at 0; the stages from       *)
(* create_drainage_basins on then run as in generate().                    *)
(***************************************************************************)
\* Seven tiles: a centre 0.1, 0.299 or 0.3 above the sea and six neighbours
\* that are each 0.04 or 0.06, or all 0.05, higher than the centre.
SevenTileFixtures ==
    LET rim == LoopCoords(1) \ {<<0, 0>>}
    IN {[c \in LoopCoords(1) |->
            NewTile(c, IF c = <<0, 0>> THEN e0 ELSE e0 + rise[c], Sedimentary)] :
            e0 \in {100, 299, 300},
            rise \in [rim -> {40, 60}] \cup {[c \in rim |-> 50]}}

\* A lattice of pits: every seventh tile is a pit, each other tile has at most
\* one pit among its neighbours and stands above every pit.  The pits are
\* level (k = 0), deeper towards the rim of the map (k = 1), or level under a
\* flat surrounding of 0.4, so that pits have identical surroundings
\* (k = 2).  The tiles are
\* dry (p = 0) or carry a precipitation between 0 and 0.3 (p = 1), which
\* calculate_flow_accumulation reads.
PitLatticeFixtures ==
    {[c \in LoopCoords(LatticeRadius) |->
        [NewTile(c,
                 IF (c[1] + 3 * c[2] + o) % 7 = 0
                 THEN (IF k = 1 THEN 330 - 70 * hex_distance(c, <<0, 0>>) ELSE 100)
                 ELSE 400 + (IF k = 2 THEN 0 ELSE 10 * ((3 * c[1] + 5 * c[2]) % 7)),
                 Sedimentary)
            EXCEPT !.precipitation = p * 100 * ((c[1] + 2 * c[2]) % 4)]] :
        o \in 0..6, k \in 0..2, p \in 0..1}

\* Low-lying land of radius 2, all of it within 0.12 of the sea level, under
\* the strongest documented climate_extremeness.
LowlandFixtures ==
    {[c \in LoopCoords(2) |->
        NewTile(c, 20 + 10 * ((a * c[1] + b * c[2] + k) % 11), Sedimentary)] :
        a \in 3..4, b \in 1..4, k \in 0..2}

InitFixture ==
    /\ \/ map_radius = 1 /\ tiles \in SevenTileFixtures /\ config = pangaea
       \/ map_radius = LatticeRadius /\ tiles \in PitLatticeFixtures /\ config = pangaea
       \/ /\ map_radius = 2
          /\ tiles \in LowlandFixtures
          /\ config = [pangaea EXCEPT !.name = "extreme", !.climate_extremeness = 2000]
    /\ sea_level = 0
    /\ flow_directions = NoFlow
    /\ flow_accumulation = NoFlow
    /\ pc = "create_drainage_basins"
    /\ returned = <<>>
    /\ probe = <<>>
    /\ probe_out = <<>>

NextFixture ==
    \/ CreateDrainageBasins
    \/ CalculateFlowDirections
    \/ CalculateFlowAccumulation
    \/ GenerateRiverNetwork
    \/ CalculateRiverFlowRates
    \/ MarkCoastalFeatures
    \/ SimulateTemperature
    \/ SimulatePrecipitation
    \/ ApplyOrographicEffects
    \/ AssignBiomes
    \/ RefineRiverNetwork
    \/ PlaceLakes
    \/ CalculateSoilFertility
    \/ PlaceGeologicalResources
    \/ Return

SpecFixture == InitFixture /\ [][NextFixture]_vars

(***************************************************************************)
(* The per-cell body of generate_tectonic_structure applied to cells at    *)
(* distances from the continent centre as they occur on large maps, where  *)
(* the continental influence has decayed.                                  *)
(***************************************************************************)
InitTectonic ==
    /\ map_radius = 0
    /\ config \in {[pangaea EXCEPT !.name = "probe", !.volcanic_activity = va] :
                        va \in {0, 1000, 1200, 1500, 1800, 2000}}
    /\ tiles = NoTiles
    /\ sea_level = 0
    /\ flow_directions = NoFlow
    /\ flow_accumulation = NoFlow
    /\ pc = "probe_tectonic"
    /\ returned = <<>>
    /\ probe \in {<<[hex_coord |-> <<q, r>>, seed |-> seed]>> :
                      q \in {0, 40, 100, 160, 240, 400}, r \in 0..3, seed \in Seeds}
    /\ probe_out = <<>>

ProbeTectonic ==
    /\ pc = "probe_tectonic"
    /\ probe_out' = <<TectonicTile(probe[1].hex_coord, <<<<0, 0>>>>, config, probe[1].seed)>>
    /\ pc' = "probed_tectonic"
    /\ UNCHANGED <<map_radius, config, tiles, sea_level, flow_directions,
                   flow_accumulation, returned, probe>>

NextTectonic == ProbeTectonic

SpecTectonic == InitTectonic /\ [][NextTectonic]_vars

(***************************************************************************)
(* place_lakes called on a generator whose elevations are set by hand, the *)
(* sea level at 0 and flow_directions as calculate_flow_directions leaves  *)
(* them; the fields place_lakes does not read keep their initial values.   *)
(***************************************************************************)
\* A wide and dense lattice of pits: the tiles with two even coordinates, at
\* depths that fall along one direction, the other tiles above all of them.
\* It holds more qualifying pits than the 25 that place_lakes looks at.
WideLatticeFixtures ==
    {[c \in LoopCoords(WideRadius) |->
        NewTile(c,
                IF c[1] % 2 = 0 /\ c[2] % 2 = 0
                THEN 150 + a * (c[1] \div 2) - b * (c[2] \div 2)
                ELSE 400 + 10 * ((w[1] * c[1] + w[2] * c[2]) % w[3]),
                Sedimentary)] :
        a \in 4..9, b \in 5..9, w \in {<<1, 2, 5>>, <<2, 3, 11>>}}

InitLakes ==
    /\ map_radius = WideRadius
    /\ tiles \in WideLatticeFixtures
    /\ config = pangaea
    /\ sea_level = 0
    /\ flow_directions = calculate_flow_directions(tiles, 0)
    /\ flow_accumulation = NoFlow
    /\ pc = "place_lakes"
    /\ returned = <<>>
    /\ probe = <<>>
    /\ probe_out = <<>>

NextLakes == PlaceLakes

SpecLakes == InitLakes /\ [][NextLakes]_vars

(***************************************************************************)
(* determine_sea_level called on a map whose elevations are given: a       *)
(* seven-tile map (radius 1) with ties between elevations or with pairwise *)
(* distinct elevations, under configurations without sea-level jitter.     *)
(***************************************************************************)
\* The elevations of the seven tiles: every assignment of three levels (ties),
\* and four assignments of pairwise distinct values.
ProbeSeaElevations ==
    [LoopCoords(1) -> {0 - 200, 0, 100}]
        \cup {[c \in LoopCoords(1) |-> lo + step * (3 * (c[1] + 1) + c[2] + 1)] :
                lo \in {0 - 1000, 0 - 300}, step \in {100, 250}}

InitSea ==
    /\ map_radius = 1
    /\ config \in {[pangaea EXCEPT !.name = "probe", !.target_land_percentage = f,
                        !.sea_level_variance = 0] :
                        f \in {0, 200, 350, 500, 800, 1000}}
    /\ tiles \in {[c \in LoopCoords(1) |-> NewTile(c, e[c], Sedimentary)] :
                    e \in ProbeSeaElevations}
    /\ sea_level = 0
    /\ flow_directions = NoFlow
    /\ flow_accumulation = NoFlow
    /\ pc = "determine_sea_level"
    /\ returned = <<>>
    /\ probe = <<>>
    /\ probe_out = <<>>

NextSea == DetermineSeaLevel

SpecSea == InitSea /\ [][NextSea]_vars

(***************************************************************************)
(* Stage order of generate().                                              *)
(***************************************************************************)
Stages ==
    <<"generate_tectonic_structure", "generate_base_elevation",
      "apply_geological_processes", "determine_sea_level", "create_drainage_basins",
      "calculate_flow_directions", "calculate_flow_accumulation",
      "generate_river_network", "calculate_river_flow_rates", "mark_coastal_features",
      "simulate_temperature", "simulate_precipitation", "apply_orographic_effects",
      "assign_biomes", "refine_river_network", "place_lakes",
      "calculate_soil_fertility", "place_geological_resources", "return", "done">>

StageNo(s) == CHOOSE i \in 1..Len(Stages) : Stages[i] = s

\* Stage s of the current run has run to its end.
Completed(s) ==
    /\ pc \in {Stages[i] : i \in 1..Len(Stages)}
    /\ StageNo(pc) > StageNo(s)

\* The climate and biome fields of the tiles that a stage reads.
StageReads(s) ==
    CASE s \in {"calculate_flow_accumulation", "generate_river_network",
                "apply_orographic_effects"} -> {"precipitation"}
      [] s = "assign_biomes" -> {"temperature", "precipitation"}
      [] s \in {"refine_river_network", "place_lakes", "calculate_soil_fertility",
                "place_geological_resources"} -> {"biome"}
      [] OTHER -> {}

\* The stage that replaces the placeholder of a field (0.0, or biome 0) of the
\* WorldTile literal.
FieldWriter(field) ==
    CASE field = "temperature" -> "simulate_temperature"
      [] field = "precipitation" -> "simulate_precipitation"
      [] field = "biome" -> "assign_biomes"

(***************************************************************************)
(* Properties.                                                             *)
(***************************************************************************)
\* The axial coordinates within hex distance R of the origin.
HexDisk(R) ==
    {c \in ((-R)..R) \X ((-R)..R) : Max(Max(Abs(c[1]), Abs(c[2])), Abs(c[1] + c[2])) <= R}

Land == {c \in Coords : IsLand(tiles, sea_level, c)}

\* C1: for a radius R >= 0, once generate_tectonic_structure has run (in this
\* call of generate() or an earlier one on the same generator), the keys of
\* the tile map are exactly the coordinates with max(|q|, |r|, |q+r|) <= R,
\* there are 3R^2 + 3R + 1 of them, every tile's hex_coord is its key, and the
\* vector generate() returns holds exactly one tile per such coordinate.
C1_TileSet ==
    (map_radius >= 0 /\ (Completed("generate_tectonic_structure") \/ Coords # {})) =>
        /\ Coords = HexDisk(map_radius)
        /\ Cardinality(Coords) = 3 * map_radius * map_radius + 3 * map_radius + 1
        /\ \A c \in Coords : tiles[c].hex_coord = c
        /\ pc = "done" =>
              /\ Len(returned) = Cardinality(HexDisk(map_radius))
              /\ \A c \in HexDisk(map_radius) :
                    \E i \in 1..Len(returned) : returned[i] = tiles[c] /\ returned[i].hex_coord = c

\* C1 witness: a repeated call of generate() on the largest map has rebuilt
\* the tiles (the flow maps of the earlier run are still there).
C1_Witness ==
    /\ pc = "generate_base_elevation"
    /\ map_radius = MaxRadius
    /\ DOMAIN flow_directions # {}

\* C2 (as claimed): for a radius >= 1 no stage of generate() aborts.
C2_NoStageAborts == map_radius >= 1 => pc # "panicked"

\* C3 (as claimed): a radius <= 0 or a land fraction outside [0, 1] is
\* rejected before any tile is created: no tile map and no returned tile set.
C3_ConfigErrorsRejected ==
    (map_radius <= 0 \/ config.target_land_percentage \notin 0..1000) =>
        (Coords = {} /\ pc # "done")

\* C4: when generate() returns, a tile's biome is Ocean exactly when its
\* elevation is at or below the sea level.
C4_OceanIffBelowSea ==
    pc = "done" =>
        \A c \in Coords : (tiles[c].biome = Ocean) <=> (tiles[c].elevation <= sea_level)

\* C4 witness: a returned map with a lake, an ocean tile and a tile exactly at
\* sea level.
C4_Witness ==
    /\ pc = "done"
    /\ \E c \in Coords : tiles[c].biome = Lake
    /\ \E c \in Coords : tiles[c].elevation = sea_level
    /\ \E c \in Coords : tiles[c].elevation < sea_level

\* C5: after the hydrology stage, after the refinement and when generate()
\* returns, a river tile has river_flow in [0.1, 1] and a tile without a river
\* has river_flow 0.
C5_RiverFlowRange ==
    Completed("calculate_river_flow_rates") =>
        \A c \in Coords :
            /\ tiles[c].has_river =>
                  (tiles[c].river_flow >= 100 /\ tiles[c].river_flow <= 1000)
            /\ ~tiles[c].has_river => tiles[c].river_flow = 0

\* C5 witness: the refinement has promoted a tile whose accumulation is below
\* every threshold of the hydrology stage, and some river carries less than
\* the full flow.
C5_Witness ==
    /\ Completed("refine_river_network")
    /\ \E c \in DOMAIN flow_accumulation :
          tiles[c].has_river /\ flow_accumulation[c] < 3200
    /\ \E c \in Coords : tiles[c].has_river /\ tiles[c].river_flow < 1000

\* C6 (as claimed): when generate() returns, a tile without a river has no
\* river edge.
C6_NoEdgeWithoutRiver ==
    pc = "done" =>
        \A c \in Coords : ~tiles[c].has_river => \A d \in DirIndex : ~tiles[c].river_edges[d]

\* C6 (amended): when generate() returns, a tile without a river has a river
\* edge only in a direction whose neighbour has a river and is its flow target
\* or flows into it.
C6_EdgeOnlyTowardsRiver ==
    pc = "done" =>
        \A c \in Coords : \A d \in DirIndex :
            (~tiles[c].has_river /\ tiles[c].river_edges[d]) =>
                LET n == Neighbor(c, d)
                IN /\ n \in Coords
                   /\ tiles[n].has_river
                   /\ \/ (c \in DOMAIN flow_directions /\ flow_directions[c] = <<d, n>>)
                      \/ (n \in DOMAIN flow_directions
                            /\ flow_directions[n] = <<(d + 3) % 6, c>>)

\* C6 witness: a returned map where a tile without a river has a river edge.
C6_Witness ==
    /\ pc = "done"
    /\ \E c \in Coords : ~tiles[c].has_river /\ \E d \in DirIndex : tiles[c].river_edges[d]

\* C7: once calculate_flow_directions has run, only land tiles have an entry;
\* an entry (direction, target) has target = neighbors()[direction] on the map,
\* strictly lower than the source and lowest among the on-map neighbours, with
\* the lowest direction index on ties; a land tile with no strictly lower
\* neighbour has no entry.
C7_FlowDirections ==
    Completed("calculate_flow_directions") =>
        /\ \A c \in DOMAIN flow_directions :
              LET d == flow_directions[c][1]
                  target == flow_directions[c][2]
              IN /\ c \in Land
                 /\ d \in DirIndex
                 /\ target = Neighbor(c, d)
                 /\ target \in Coords
                 /\ tiles[target].elevation < tiles[c].elevation
                 /\ \A e \in OnMapNeighbors(tiles, c) :
                       /\ tiles[Neighbor(c, e)].elevation >= tiles[target].elevation
                       /\ tiles[Neighbor(c, e)].elevation = tiles[target].elevation => e >= d
        /\ \A c \in Land :
              (\A e \in OnMapNeighbors(tiles, c) :
                    tiles[Neighbor(c, e)].elevation >= tiles[c].elevation)
                 => c \notin DOMAIN flow_directions

\* C7 witness: flow directions just computed, with a tie between two lowest
\* neighbours and a land tile that has on-map neighbours but no entry.
C7_Witness ==
    /\ pc = "calculate_flow_accumulation"
    /\ \E c \in DOMAIN flow_directions : \E e \in OnMapNeighbors(tiles, c) :
          /\ e # flow_directions[c][1]
          /\ tiles[Neighbor(c, e)].elevation = tiles[flow_directions[c][2]].elevation
    /\ \E c \in Land : c \notin DOMAIN flow_directions /\ OnMapNeighbors(tiles, c) # {}

\* The tiles of the walk from c along flow_directions, cut after `steps` moves.
RECURSIVE FlowWalk(_, _)
FlowWalk(c, steps) ==
    IF c \notin DOMAIN flow_directions \/ steps = 0 THEN <<c>>
    ELSE <<c>> \o FlowWalk(flow_directions[c][2], steps - 1)

\* C8: once calculate_flow_directions has run, the walk from any land tile
\* along flow_directions reaches a tile without a flow direction within N
\* moves (N the number of tiles) and visits no tile twice.
C8_FlowWalkEnds ==
    Completed("calculate_flow_directions") =>
        \A c \in Land :
            LET walk == FlowWalk(c, Cardinality(Coords))
            IN /\ walk[Len(walk)] \notin DOMAIN flow_directions
               /\ \A i, j \in 1..Len(walk) : walk[i] = walk[j] => i = j

\* C8 witness: a walk of at least three moves that ends on an ocean tile.
C8_Witness ==
    /\ Completed("calculate_flow_directions")
    /\ \E c \in Land :
          LET walk == FlowWalk(c, Cardinality(Coords))
          IN Len(walk) >= 4 /\ walk[Len(walk)] \notin Land

FlowTotal == SumOver(flow_accumulation, DOMAIN flow_accumulation)

PrecipBonusTotal ==
    SumOver([c \in DOMAIN flow_directions |-> tiles[c].precipitation \div 2],
            DOMAIN flow_directions)

\* C9 (as claimed): right after calculate_flow_accumulation the values of
\* flow_accumulation sum to the number of land tiles plus the precipitation
\* bonuses of the land tiles that have a flow direction.
C9_FlowConserved ==
    pc = "generate_river_network" =>
        FlowTotal = 1000 * Cardinality(Land) + PrecipBonusTotal

\* C9 (amended): the values sum to the number of land tiles plus, for every
\* land tile that has a flow direction, that tile's own accumulation and its
\* precipitation bonus: a tile's flow is copied to its target, not moved.
C9_FlowCopiedDownstream ==
    pc = "generate_river_network" =>
        FlowTotal = 1000 * Cardinality(Land) + PrecipBonusTotal
                        + SumOver([c \in DOMAIN flow_directions |-> flow_accumulation[c]],
                                  DOMAIN flow_directions)

\* C9 witness: accumulation just computed, with a tile that passes on flow it
\* received and an ocean tile that received flow.
C9_Witness ==
    /\ pc = "generate_river_network"
    /\ \E c \in DOMAIN flow_directions :
          flow_directions[c][2] \in DOMAIN flow_directions /\ flow_accumulation[c] > 1000
    /\ \E c \in DOMAIN flow_accumulation : c \notin Land

\* C10: for every temperature, precipitation and drainage in [0, 1], elevation
\* above the sea level and either coastal flag, determine_terrestrial_biome
\* returns a biome of the enumeration that is not Ocean, Lake or River.
C10_ClassifierTotal ==
    pc = "probed" =>
        /\ Len(probe_out) = 1
        /\ probe_out[1] \in BiomeCodes \ {Ocean, Lake, River}

\* C10 witness: the classifier has answered for a hot, dry, well drained
\* lowland tile (the last arm of the table).
C10_Witness ==
    /\ pc = "probed"
    /\ probe[1].temperature = 1000
    /\ probe[1].precipitation = 0
    /\ probe_out = <<HotDesert>>

\* C11: without sea-level jitter and for a land fraction f in [0, 1] over N
\* tiles, determine_sea_level sets the sea level to the sorted elevation at
\* index min(floor(N * (1 - f)), N - 1); the number of tiles above it is at
\* most ceil(f * N), is within 1 of f * N when the elevations are pairwise
\* distinct, and is 0 when f = 0.
C11_SeaLevelPercentile ==
    (/\ pc = "create_drainage_basins"
     /\ config.sea_level_variance = 0
     /\ config.target_land_percentage \in 0..1000) =>
        LET N == Cardinality(Coords)
            f == config.target_land_percentage
            idx == Min((N * (1000 - f)) \div 1000, N - 1)
            below == Cardinality({c \in Coords : tiles[c].elevation < sea_level})
            upto == Cardinality({c \in Coords : tiles[c].elevation <= sea_level})
            L == Cardinality(Land)
            distinct == \A a, b \in Coords :
                            a # b => tiles[a].elevation # tiles[b].elevation
        IN /\ \E c \in Coords : tiles[c].elevation = sea_level
           /\ below <= idx
           /\ idx < upto
           /\ 1000 * L < f * N + 1000
           /\ distinct => (1000 * L - f * N <= 1000 /\ f * N - 1000 * L <= 1000)
           /\ f = 0 => L = 0

\* C11 witness: the sea level set on seven pairwise distinct elevations for
\* the default land fraction 0.35, two tiles left above it.
C11_Witness ==
    /\ pc = "create_drainage_basins"
    /\ config.sea_level_variance = 0
    /\ config.target_land_percentage = 350
    /\ Cardinality(Coords) = 7
    /\ \A a, b \in Coords : a # b => tiles[a].elevation # tiles[b].elevation
    /\ Cardinality(Land) = 2

\* C12 (as claimed): for radius 5, one continent and target land fraction 1.0,
\* the map generate() returns has no Ocean tile and every elevation is above
\* the sea level.
C12_AllLandScenario ==
    (/\ pc = "done"
     /\ map_radius = 5
     /\ config.continent_count = 1
     /\ config.target_land_percentage = 1000) =>
        \A c \in Coords : tiles[c].biome # Ocean /\ tiles[c].elevation > sea_level

\* C13 (as claimed): when generate() returns under a configuration within the
\* documented ranges, every tile has its elevation in [-1, 1] and its
\* temperature, precipitation, drainage, soil fertility and river flow in
\* [0, 1].
C13_FieldRanges ==
    (pc = "done" /\ InDocumentedRanges(config)) =>
        \A c \in Coords :
            /\ tiles[c].elevation \in (0 - 1000)..1000
            /\ tiles[c].temperature \in 0..1000
            /\ tiles[c].precipitation \in 0..1000
            /\ tiles[c].drainage \in 0..1000
            /\ tiles[c].soil_fertility \in 0..1000
            /\ tiles[c].river_flow \in 0..1000

\* C14 (as claimed): a stage of generate() that reads the temperature, the
\* precipitation or the biome of the tiles runs only after the stage that
\* writes that field has run in the same call.
C14_StagesReadFinalFields ==
    \A field \in StageReads(pc) : Completed(FieldWriter(field))

\* C15 (as claimed): when generate() returns, flow_directions and
\* flow_accumulation hold no entries.
C15_FlowMapsDiscarded ==
    pc = "done" => (DOMAIN flow_directions = {} /\ DOMAIN flow_accumulation = {})

\* C15 (amended): the two flow maps are kept.  From the end of the hydrology
\* stage until generate() has returned, flow_directions is the map computed
\* from the final elevations and sea level, flow_accumulation has an entry for
\* every land tile and every flow target, and every tile place_lakes turned
\* into a Lake has at least two neighbours whose entry in flow_directions
\* points to it.
C15_FlowMapsKept ==
    Completed("calculate_flow_accumulation") =>
        /\ flow_directions = calculate_flow_directions(tiles, sea_level)
        /\ DOMAIN flow_accumulation =
              Land \cup {flow_directions[c][2] : c \in DOMAIN flow_directions}
        /\ \A c \in Coords :
              tiles[c].biome = Lake => incoming_flows(flow_directions, c) >= 2

\* C15 witness: generate() has returned, both maps still hold entries, the
\* refinement promoted a tile on its accumulation and a lake was placed.
C15_Witness ==
    /\ pc = "done"
    /\ DOMAIN flow_directions # {}
    /\ \E c \in DOMAIN flow_accumulation :
          tiles[c].has_river /\ flow_accumulation[c] < 3200
    /\ \E c \in Coords : tiles[c].biome = Lake

\* C16: once place_geological_resources has run, every tile's resource is
\* generate_biome_resource(its coordinate, its final biome): the element at
\* index (|q| + 3|r|) mod len of the biome's resource list where the noise gate
\* passes and 0 elsewhere, a code in 0..16; the returned tiles carry the same.
C16_ResourcePure ==
    pc \in {"return", "done"} =>
        /\ \A c \in Coords :
              LET list == possible_resources(tiles[c].biome)
                  gate == NoiseAt(ResourceSeed, 6, c) > 700
              IN /\ tiles[c].resource = generate_biome_resource(c, tiles[c].biome)
                 /\ gate => tiles[c].resource =
                                list[((Abs(c[1]) + 3 * Abs(c[2])) % Len(list)) + 1]
                 /\ ~gate => tiles[c].resource = 0
                 /\ tiles[c].resource \in 0..16
        /\ \A i \in 1..Len(returned) :
              returned[i].resource =
                  generate_biome_resource(returned[i].hex_coord, returned[i].biome)

\* C16 witness: a returned map with a tile that got the second entry of its
\* biome's list, a Lake tile that got Fish, and a tile without a resource.
C16_Witness ==
    /\ pc = "done"
    /\ \E c \in Coords :
          /\ tiles[c].resource # 0
          /\ Len(possible_resources(tiles[c].biome)) > 1
          /\ tiles[c].resource = possible_resources(tiles[c].biome)[2]
    /\ \E c \in Coords : tiles[c].biome = Lake /\ tiles[c].resource = Fish
    /\ \E c \in Coords : tiles[c].resource = 0

\* The seven-tile map whose centre is a land tile lower than its six
\* neighbours, with at least two of them flowing into it.
CentreIsPit ==
    /\ map_radius = 1
    /\ Cardinality(Coords) = 7
    /\ tiles[<<0, 0>>].elevation > sea_level
    /\ \A d \in DirIndex :
          tiles[Neighbor(<<0, 0>>, d)].elevation > tiles[<<0, 0>>].elevation
    /\ Cardinality({d \in DirIndex :
                        /\ Neighbor(<<0, 0>>, d) \in DOMAIN flow_directions
                        /\ flow_directions[Neighbor(<<0, 0>>, d)][2] = <<0, 0>>}) >= 2

\* C17: on a 7-tile map whose centre is a land tile lower than all six
\* neighbours, with at least two neighbours flowing into it, place_lakes
\* takes the centre as the only lake candidate and gives it biome Lake.
C17_FixtureAccepted ==
    (Completed("place_lakes") /\ CentreIsPit) =>
        /\ LakeCandidates(tiles, sea_level, flow_directions) = {<<0, 0>>}
        /\ tiles[<<0, 0>>].biome = Lake

\* C17 as the code has it: the centre becomes the only candidate and the
\* Lake when it is, besides, less than 0.3 above the sea level and its
\* neighbours are on average more than 0.05 higher than it.
C17_FixtureAcceptedWhenShallowAndDeep ==
    (/\ Completed("place_lakes")
     /\ CentreIsPit
     /\ tiles[<<0, 0>>].elevation < sea_level + 300
     /\ SumOver([d \in DirIndex |-> tiles[Neighbor(<<0, 0>>, d)].elevation], DirIndex)
            > 6 * (tiles[<<0, 0>>].elevation + 50)) =>
        /\ LakeCandidates(tiles, sea_level, flow_directions) = {<<0, 0>>}
        /\ tiles[<<0, 0>>].biome = Lake
        /\ \A c \in Coords \ {<<0, 0>>} : tiles[c].biome # Lake

\* C17 witness: the generator has finished on such a map, the centre 0.299
\* above the sea and the neighbours on average just over 0.05 higher, and the
\* centre is a Lake.
C17_Witness ==
    /\ pc = "done"
    /\ CentreIsPit
    /\ tiles[<<0, 0>>].elevation = sea_level + 299
    /\ Cardinality({d \in DirIndex :
            tiles[Neighbor(<<0, 0>>, d)].elevation = tiles[<<0, 0>>].elevation + 40}) = 2
    /\ tiles[<<0, 0>>].biome = Lake

LakeTiles == {c \in Coords : tiles[c].biome = Lake}

\* C18: when generate() has finished, at most 25 tiles are Lake, two distinct
\* Lake tiles are at hex distance 6 or more, and every Lake tile is above the
\* sea level by less than 0.3, has at least 4 higher neighbours, neighbours
\* whose mean elevation is more than 0.05 above its own, and at least 2
\* neighbours whose flow direction points to it.
C18_LakeRules ==
    pc = "done" =>
        /\ Cardinality(LakeTiles) <= 25
        /\ \A a, b \in LakeTiles : a # b => hex_distance(a, b) >= 6
        /\ \A c \in LakeTiles :
              LET nbrs == {Neighbor(c, d) : d \in DirIndex} \cap Coords
              IN /\ sea_level < tiles[c].elevation
                 /\ tiles[c].elevation < sea_level + 300
                 /\ Cardinality({n \in nbrs : tiles[n].elevation > tiles[c].elevation}) >= 4
                 /\ SumOver([n \in nbrs |-> tiles[n].elevation], nbrs)
                        > Cardinality(nbrs) * (tiles[c].elevation + 50)
                 /\ Cardinality({n \in nbrs : /\ n \in DOMAIN flow_directions
                                               /\ flow_directions[n][2] = c}) >= 2

\* C18 witness: generate() has finished with two Lake tiles, and a tile that
\* met the candidate rule is not a Lake because a Lake is within distance 5.
C18_Witness ==
    /\ pc = "done"
    /\ Cardinality(LakeTiles) = 2
    /\ \E c \in LakeCandidates(tiles, sea_level, flow_directions) \ LakeTiles :
          \E a \in LakeTiles : hex_distance(a, c) < 6

\* The land tiles whose flow target is c.
Feeders(c) == {n \in Land \cap DOMAIN flow_directions : flow_directions[n][2] = c}

\* The position of c in a sequence that holds it.
PositionIn(order, c) == CHOOSE i \in 1..Len(order) : order[i] = c

\* C19: calculate_flow_accumulation visits the land tiles by descending
\* elevation, so every tile comes after all the tiles that flow into it, and
\* the value it leaves on a land tile c is 1 plus, for every land tile n with
\* flow target c, the value of n and half the precipitation of n; when no tile
\* has precipitation this is the number of land tiles whose flow path passes
\* through c, c included.
C19_SinglePassAccumulation ==
    pc = "generate_river_network" =>
        LET order == SortedByElevation(tiles, Land)
        IN \A c \in Land :
              /\ \A n \in Feeders(c) : PositionIn(order, n) < PositionIn(order, c)
              /\ flow_accumulation[c] =
                    1000 + SumOver([n \in Feeders(c) |->
                                      flow_accumulation[n] + tiles[n].precipitation \div 2],
                                   Feeders(c))
              /\ (\A n \in Coords : tiles[n].precipitation = 0) =>
                    flow_accumulation[c] =
                        1000 * Cardinality({n \in Land :
                            \E i \in 1..Len(FlowWalk(n, Cardinality(Coords))) :
                                FlowWalk(n, Cardinality(Coords))[i] = c})

\* C19 witness: accumulation just computed on a map with precipitation, where
\* a land tile has two feeders, one of which has a feeder itself and one of
\* which brings a precipitation bonus.
C19_Witness ==
    /\ pc = "generate_river_network"
    /\ \E c \in Land :
          /\ Cardinality(Feeders(c)) >= 2
          /\ \E n \in Feeders(c) : Feeders(n) # {}
          /\ \E n \in Feeders(c) : tiles[n].precipitation > 0

\* C19 witness for the dry case: no tile has precipitation and a land tile
\* collects the flow of a path of at least two moves.
C19_WitnessDry ==
    /\ pc = "generate_river_network"
    /\ \A n \in Coords : tiles[n].precipitation = 0
    /\ \E c \in Land : \E n \in Feeders(c) : Feeders(n) # {}

\* One of the two tiles has the other as its flow target.
FlowEdge(a, b) ==
    \/ a \in DOMAIN flow_directions /\ flow_directions[a][2] = b
    \/ b \in DOMAIN flow_directions /\ flow_directions[b][2] = a

\* C20: when generate() has finished, a tile has river_edges[d] set exactly
\* when its neighbour in direction d is on the map and has
\* river_edges[(d + 3) % 6] set, and exactly when one of the two has the other
\* as its flow target and at least one of the two has has_river; and no step
\* of generate() clears a flag that is set.
C20_RiverEdgesSymmetric ==
    /\ [](pc = "done" =>
            \A c \in Coords : \A d \in DirIndex :
                LET b == Neighbor(c, d)
                IN /\ tiles[c].river_edges[d] <=>
                        (b \in Coords /\ tiles[b].river_edges[(d + 3) % 6])
                   /\ tiles[c].river_edges[d] <=>
                        /\ b \in Coords
                        /\ FlowEdge(c, b)
                        /\ (tiles[c].has_river \/ tiles[b].has_river))
    /\ [][\A c \in (DOMAIN tiles) \cap (DOMAIN tiles') : \A d \in DirIndex :
            tiles[c].river_edges[d] => tiles'[c].river_edges[d]]_vars

\* C20 witness: generate() has finished with a flag on a tile that has no
\* river itself, by an edge to a river tile, and with a flow edge between two
\* tiles without river that carries no flag.
C20_Witness ==
    /\ pc = "done"
    /\ \E c \in Coords : \E d \in DirIndex :
          /\ tiles[c].river_edges[d]
          /\ ~tiles[c].has_river
          /\ tiles[Neighbor(c, d)].has_river
    /\ \E c \in DOMAIN flow_directions :
          /\ ~tiles[c].has_river
          /\ ~tiles[flow_directions[c][2]].has_river
          /\ ~tiles[c].river_edges[flow_directions[c][1]]

\* Orders in which the keys of the tile map may be visited: one order, two of
\* its rotations and its reverse.
VisitOrders(S) ==
    LET base == SortedByElevation(tiles, S)
        n == Len(base)
    IN {[i \in 1..n |-> base[((i + k - 1) % n) + 1]] : k \in {0, 1, n \div 2}}
          \cup {[i \in 1..n |-> base[n + 1 - i]]}

\* The steps k at which a ray reaches tile c: its source lies k steps back, is
\* more than 0.3 above the sea level, and every tile of the ray up to c is on
\* the map and lower than the source by more than 0.1.
RayHits(c) ==
    {k \in 1..7 :
        \E d \in DirIndex :
            LET s == StepN(c, (d + 3) % 6, k)
            IN /\ s \in Coords
               /\ tiles[s].elevation > sea_level + 300
               /\ \A j \in 1..k :
                     /\ StepN(s, d, j) \in Coords
                     /\ tiles[StepN(s, d, j)].elevation < tiles[s].elevation - 100}

\* C21: the rain-shadow pass multiplies the precipitation of each tile by
\* 1 - s, s being the largest 0.3 * 0.7^(k-1) over the rays that reach the
\* tile at step k (0 when none does); rays start at tiles more than 0.3 above
\* the sea level, run at most 7 steps and stop at the first tile off the map
\* or not lower than the source by more than 0.1.  The order in which the
\* tiles are visited does not change the result, and no precipitation rises
\* or falls by more than 30%.
C21_RainShadowIsMaximum ==
    [][(pc = "apply_orographic_effects" /\ pc' = "assign_biomes") =>
        \A order \in VisitOrders(Coords) :
            LET eff == CastShadows(tiles, sea_level, order, 1, [c \in Coords |-> 0])
            IN \A c \in Coords :
                  /\ eff[c] = IF RayHits(c) = {} THEN 0
                              ELSE LET k == CHOOSE x \in RayHits(c) : \A j \in RayHits(c) : x <= j
                                   IN (3000 * 7^(k - 1) + (10^k) \div 2) \div 10^k
                  /\ tiles'[c].precipitation =
                        (tiles[c].precipitation * (1000 - eff[c])) \div 1000
                  /\ tiles'[c].precipitation <= tiles[c].precipitation
                  /\ tiles'[c].precipitation >= (tiles[c].precipitation * 700) \div 1000]_vars

\* C21 witness: the pass has run on a map where a tile with precipitation is
\* reached by rays at two different steps, and where a ray is cut after its
\* seventh step although the next tile is on the map and low enough.
C21_Witness ==
    /\ pc = "assign_biomes"
    /\ \E c \in Coords : tiles[c].precipitation > 0 /\ Cardinality(RayHits(c)) >= 2
    /\ \E c \in Coords : \E d \in DirIndex :
          /\ tiles[c].elevation > sea_level + 300
          /\ \A j \in 1..8 :
                /\ StepN(c, d, j) \in Coords
                /\ tiles[StepN(c, d, j)].elevation < tiles[c].elevation - 100
          /\ 7 \in RayHits(StepN(c, d, 7))
          /\ RayHits(StepN(c, d, 8)) = {}

\* C22: the erosion pass leaves a tile with elevation <= 0 unchanged and
\* takes a tile with elevation e > 0 to max(-1, e - 0.02 * max(0, e - m)), m
\* the mean elevation before the pass of its neighbours on the map; the
\* amounts come from the elevations before the pass, so the order of the
\* visits does not matter, and no elevation rises.  (On the one-tile map the
\* tile has no neighbour, hence no mean, and is unchanged.)
C22_ErosionSnapshot ==
    [][(pc = "apply_geological_processes" /\ pc' = "determine_sea_level") =>
        /\ \A c \in Coords :
              LET e == tiles[c].elevation
                  nbrs == {Neighbor(c, d) : d \in DirIndex} \cap Coords
                  total == SumOver([x \in nbrs |-> tiles[x].elevation], nbrs)
                  excess == IF e * Cardinality(nbrs) > total
                            THEN e * Cardinality(nbrs) - total ELSE 0
              IN /\ (e <= 0 \/ nbrs = {}) => tiles'[c].elevation = e
                 /\ (e > 0 /\ nbrs # {}) => tiles'[c].elevation =
                                IF e - excess \div (50 * Cardinality(nbrs)) < -1000
                                THEN -1000
                                ELSE e - excess \div (50 * Cardinality(nbrs))
                 /\ tiles'[c].elevation <= e
        /\ \A order \in VisitOrders(Coords) :
              LET after == ApplyErosion(tiles, [c \in Coords |-> ErosionOf(tiles, c)],
                                        order, 1)
              IN \A c \in Coords : after[c].elevation = tiles'[c].elevation]_vars

\* C22 witness: the pass has run on a map that holds a tile at or below 0, a
\* tile above 0 that stands above the mean of its neighbours by more than
\* 0.05, and a tile above 0 that lies below the mean of its neighbours.
C22_Witness ==
    /\ pc = "determine_sea_level"
    /\ \E c \in Coords : tiles[c].elevation <= 0
    /\ \E c \in Coords :
          /\ tiles[c].elevation > 0
          /\ tiles[c].elevation * Cardinality(OnMapNeighbors(tiles, c))
                > NeighborElevationSum(tiles, c) + 50 * Cardinality(OnMapNeighbors(tiles, c))
    /\ \E c \in Coords :
          /\ tiles[c].elevation > 0
          /\ tiles[c].elevation * Cardinality(OnMapNeighbors(tiles, c))
                < NeighborElevationSum(tiles, c)

\* C23: determine_terrestrial_biome never returns Wetland for a tile with
\* is_coastal set.
C23_WetlandInland ==
    (pc = "probed" /\ probe[1].is_coastal) => probe_out[1] # Wetland

\* C24: once determine_sea_level has run, no later step of the run changes
\* sea_level, the set of tiles or the elevation of a tile, so the tiles above
\* the sea level are the same set after every later stage, and the returned
\* tiles carry those elevations.
C24_SeaLevelAndElevationFixed ==
    /\ [][Completed("determine_sea_level") =>
            /\ sea_level' = sea_level
            /\ DOMAIN tiles' = DOMAIN tiles
            /\ \A c \in DOMAIN tiles : tiles'[c].elevation = tiles[c].elevation
            /\ {c \in DOMAIN tiles' : tiles'[c].elevation > sea_level'}
                  = {c \in DOMAIN tiles : tiles[c].elevation > sea_level}]_vars
    /\ [](pc = "done" =>
            /\ Len(returned) = Cardinality(Coords)
            /\ \A i \in 1..Len(returned) :
                  returned[i].elevation = tiles[returned[i].hex_coord].elevation)

\* C24 witness: generate() has returned a map with ocean tiles, with a tile
\* exactly at the sea level, and with land tiles that later stages turned
\* into a river tile and into a Lake.
C24_Witness ==
    /\ pc = "done"
    /\ \E i \in 1..Len(returned) : returned[i].elevation < sea_level
    /\ \E i \in 1..Len(returned) : returned[i].elevation = sea_level
    /\ \E i \in 1..Len(returned) :
          returned[i].elevation > sea_level /\ returned[i].has_river
    /\ \E i \in 1..Len(returned) : returned[i].biome = Lake

\* C25: place_lakes commits every candidate that is not within hex distance 5
\* of a lake placed before it until 25 lakes are placed: when it has run, a
\* candidate without a lake is within distance 5 of a Lake tile, or 25 tiles
\* are Lake.
C25_SkippedOnlyForSpacingOrCap ==
    Completed("place_lakes") =>
        \A c \in LakeCandidates(tiles, sea_level, flow_directions) \ LakeTiles :
            \/ \E l \in LakeTiles : hex_distance(c, l) < 6
            \/ Cardinality(LakeTiles) >= 25

\* C26: the tectonic stage gives a cell geology Volcanic exactly when the
\* volcanic term fired for it, i.e. the boundary noise is above
\* 0.8 * (2 - volcanic_activity), the base value 0.7 * influence + 0.3 * noise
\* is below 0.2 and the added term is positive; and the geology is the one
\* the threshold order gives: land above 0.3, shelf above 0.1, else volcanic
\* or oceanic crust.
C26_VolcanicIffTermFired ==
    pc = "probed_tectonic" =>
        LET c == probe[1].hex_coord
            noise == NoiseAt(probe[1].seed, 0, c)
            base == continental_base(c, <<<<0, 0>>>>, config, noise)
            fired == /\ noise * 1000 > 800 * (2000 - config.volcanic_activity)
                     /\ base < 2000
                     /\ 4 * config.volcanic_activity > 0
            final == base + (IF fired THEN 4 * config.volcanic_activity ELSE 0)
            geology == probe_out[1].geology
        IN /\ (geology = Volcanic) <=> fired
           /\ final > 3000 => geology \in {Granite, Metamorphic, Sedimentary}
           /\ (final <= 3000 /\ final > 1000) => geology = ContinentalShelf
           /\ final <= 1000 => geology \in {Volcanic, OceanicCrust}

\* C27: when generate() has finished, every tile with has_river or with
\* river_flow > 0 lies above the sea level: a tile at or below the sea level
\* that receives flow is not made a river.
C27_RiversOnLandOnly ==
    pc = "done" =>
        \A c \in Coords :
            (tiles[c].has_river \/ tiles[c].river_flow > 0) =>
                tiles[c].elevation > sea_level

\* C28: from the end of generate_river_network on, whenever a land tile has
\* has_river and its flow target is a land tile, the target has has_river.
C28_RiversContinueDownstream ==
    Completed("generate_river_network") =>
        \A c \in Land \cap DOMAIN flow_directions :
            (tiles[c].has_river /\ flow_directions[c][2] \in Land) =>
                tiles[flow_directions[c][2]].has_river

\* C29: once create_drainage_basins has run every tile's drainage is in
\* [0.3, 1.0], and at no stage of generate() does a tile have biome Mangrove
\* or SaltMarsh: the branch that returns them needs drainage < 0.3.
C29_DrainageFloor ==
    /\ \A c \in DOMAIN tiles : tiles[c].biome \notin {Mangrove, SaltMarsh}
    /\ Completed("create_drainage_basins") =>
           \A c \in DOMAIN tiles : tiles[c].drainage \in 300..1000
    /\ pc = "done" =>
           \A i \in DOMAIN returned :
               /\ returned[i].drainage \in 300..1000
               /\ returned[i].biome \notin {Mangrove, SaltMarsh}

\* A finished map with a coastal land tile wet enough for the coastal-wetland
\* branch, so that its drainage alone keeps it out of the branch.
C29_Witness ==
    /\ pc = "done"
    /\ \E c \in Land :
           /\ tiles[c].is_coastal
           /\ tiles[c].precipitation > 600
           /\ tiles[c].drainage >= 300

\* C30: for given elevations, sea level and flow directions the tiles that
\* place_lakes turns into Lake do not depend on the order in which the tile
\* map is iterated, equal scores included: every order the sorted candidate
\* list can take gives the same tiles.
C30_LakePlacementDeterministic ==
    pc = "place_lakes" =>
        \A o1, o2 \in CandidateOrders(tiles, flow_directions,
                                      LakeCandidates(tiles, sea_level, flow_directions)) :
            CommitLakes(tiles, o1, 1) = CommitLakes(tiles, o2, 1)

====
